---- MODULE Spec2Model ----
(***************************************************************************)
(* BitAds validator: the weight pipeline of neurons/validator.py, the      *)
(* score sink of core/adapters/score_sink.py and the percentile provider   *)
(* of core/adapters/p95_provider.py.                                       *)
(*                                                                         *)
(* Reals are exact rationals <<numerator, denominator>> in lowest terms,   *)
(* so "sums to 1" is an exact statement (floating-point drift is not       *)
(* modelled).  An Optional value is <<>> (None) or <<v>>.                  *)
(***************************************************************************)
EXTENDS Integers, Sequences, FiniteSets, TLC

VARIABLES
    pc,                   \* position of the validator loop
    last_update,          \* Validator.last_update
    tempo,                \* Validator.tempo
    owner_hotkey,         \* subtensor.get_subnet_owner_hotkey(netuid)
    dyn_config,           \* dynamic config per mech scope (external)
    mech_scope_to_campaign_scope,
    campaigns,            \* _process_weights: the epoch's campaign list
    campaign_weights,     \* _process_weights: emission share per campaign
    idx,                  \* _process_weights: next campaign of the for loop
    aggregated_scores,    \* _process_weights: aggregate aligned to uids
    prev_percentiles,     \* ValidatorP95Provider.prev_percentiles
    current_percentiles,  \* ValidatorP95Provider.current_percentiles
    miner_stats_cache,    \* ValidatorP95Provider._miner_stats_cache
    handed,               \* the vector _set_weights is working on
    epoch,                \* history: _process_weights calls started
    calls,                \* history: _set_weights calls of the epoch
    attempts,             \* history: extrinsic attempts of the epoch
    result,               \* history: outcome of the epoch's submission
    advances,             \* history: update_percentiles() calls of the epoch
    failed,               \* history: campaigns of the epoch that raised
    scored,               \* history: campaigns of the epoch that were scored
    idle,                 \* history: scored campaigns without any positive score
    vectors,              \* history: campaign_weights_vec of each campaign the
                          \* epoch has scored, in the order of the list
    contrib_sum,          \* history: sum of share * vector over the campaigns
                          \* of the epoch that were scored
    p95_returned,         \* history: per scope, the first thresholds returned
                          \* since the last update_percentiles()
    p95_stable,           \* history: no later call returned anything else,
                          \* recomputed or fetched
    p95_rehit,            \* history: a call was answered from the cache when
                          \* a recomputation would have given another value
    p95_floor,            \* history: per scope, the largest thresholds returned
                          \* while flooring stayed enabled
    at_submit,            \* history: the provider's maps when the submission began
    carried,              \* history: current_percentiles before the epoch's
                          \* update_percentiles()
    sink_scores,          \* input of a direct publish call
    sink_burn,            \* what the burn resolver returns to that call
    p95_call,             \* a direct get_effective_p95 call and what it did
    score_in,             \* input of a direct score_many call
    campaign_call,        \* a direct compute_scores_for_campaign call, the
                          \* campaign's weight vector and what went in
    stats_source,         \* what fetch_window returns per campaign scope
                          \* while the stats source does not change
    burn_percentage_override,  \* config.burn_percentage_override as parsed
    burn_call,            \* a direct burn_percentage_resolver call
    set_weights_call,     \* a direct _set_weights call
    config_source,        \* a dynamic config source: its cache, the clock and
                          \* its latest _fetch_config_raw call
    campaign_fetch,       \* a direct StorageCampaignSource.get_campaigns call
    version_call,         \* a direct _version_to_int call
    caught                \* history: the exception that ended the latest
                          \* loop iteration, None when it returned

real_vars == <<pc, last_update, tempo, owner_hotkey, dyn_config,
               mech_scope_to_campaign_scope, campaigns, campaign_weights, idx,
               aggregated_scores, prev_percentiles, current_percentiles,
               miner_stats_cache, handed>>

history_vars == <<epoch, calls, attempts, result, advances, failed,
                  scored, idle, vectors, contrib_sum, p95_returned, p95_stable,
                  p95_rehit, p95_floor,
                  at_submit, carried>>

sink_vars == <<sink_scores, sink_burn, p95_call, score_in, campaign_call,
               stats_source, burn_percentage_override, burn_call,
               set_weights_call, config_source, campaign_fetch, version_call>>

vars == <<real_vars, history_vars, sink_vars, caught>>

None == <<>>
Some(v) == <<v>>
Val(o) == o[1]

----------------------------------------------------------------------------
(* Bounds of the model *)

MaxEpochs == 1
MaxCarryEpochs == 3
MaxBlocks == 2
MaxScores == 2

----------------------------------------------------------------------------
(* Exact rational arithmetic *)

RECURSIVE GCD(_, _)
GCD(a, b) ==
    IF b = 0 THEN a ELSE GCD(b, a % b)

Abs(n) ==
    IF n < 0 THEN -n ELSE n

Rat(n, d) ==
    IF n = 0 THEN <<0, 1>>
    ELSE LET g == GCD(Abs(n), d) IN <<n \div g, d \div g>>

Zero == <<0, 1>>
One == <<1, 1>>

RAdd(x, y) == Rat(x[1] * y[2] + y[1] * x[2], x[2] * y[2])
RSub(x, y) == Rat(x[1] * y[2] - y[1] * x[2], x[2] * y[2])
RMul(x, y) == Rat(x[1] * y[1], x[2] * y[2])
RDiv(x, y) ==
    IF y[1] > 0 THEN Rat(x[1] * y[2], x[2] * y[1])
    ELSE Rat(-(x[1] * y[2]), x[2] * (-y[1]))
RLeq(x, y) == x[1] * y[2] <= y[1] * x[2]
RLt(x, y) == x[1] * y[2] < y[1] * x[2]
RMax(x, y) == IF RLeq(x, y) THEN y ELSE x
RMin(x, y) == IF RLeq(x, y) THEN x ELSE y

RECURSIVE SumVec(_)
SumVec(v) ==
    IF v = <<>> THEN Zero ELSE RAdd(v[1], SumVec(Tail(v)))

ZeroVec(n) == [i \in 1..n |-> Zero]

NonNegative(v) == \A i \in 1..Len(v) : RLeq(Zero, v[i])

(* Partial maps (Python dicts) *)
EmptyMap == [k \in {} |-> None]
Put(m, k, v) == [x \in (DOMAIN m) \cup {k} |-> IF x = k THEN v ELSE m[x]]
Del(m, k) == [x \in (DOMAIN m) \ {k} |-> m[x]]
Get(m, k, dflt) == IF k \in DOMAIN m THEN m[k] ELSE dflt

----------------------------------------------------------------------------
(* The metagraph: hotkeys and uids are aligned lists *)

MetaHotkeys == <<"hk_m1", "hk_m2", "hk_owner">>
MetaUids == <<1, 2, 99>>
NumUids == Len(MetaUids)

(* what get_subnet_owner_hotkey may return; "hk_gone" is not in the         *)
(* metagraph                                                                *)
OwnerHotkeys == {"hk_owner", "hk_gone"}

InMetagraph(hotkey) == \E i \in 1..Len(MetaHotkeys) : MetaHotkeys[i] = hotkey

(* list.index: the first position holding the hotkey *)
HotkeyIndex(hotkey) ==
    CHOOSE i \in 1..Len(MetaHotkeys) :
        /\ MetaHotkeys[i] = hotkey
        /\ \A j \in 1..(i - 1) : MetaHotkeys[j] # hotkey

(* ValidatorScoreSink._get_owner_index: None when the lookup raises *)
GetOwnerIndex(owner) ==
    IF InMetagraph(owner) /\ HotkeyIndex(owner) <= Len(MetaUids)
    THEN Some(HotkeyIndex(owner)) ELSE None

(* an owner lookup that falls back to the first uid of the metagraph *)
GetOwnerUidDefaulting(owner) ==
    IF InMetagraph(owner) /\ HotkeyIndex(owner) <= Len(MetaUids)
    THEN Some(MetaUids[HotkeyIndex(owner)]) ELSE Some(MetaUids[1])

(* ValidatorScoreSink._get_owner_uid *)
GetOwnerUid(owner) ==
    IF InMetagraph(owner) /\ HotkeyIndex(owner) <= Len(MetaUids)
    THEN Some(MetaUids[HotkeyIndex(owner)]) ELSE None

UidIndex(uid) == CHOOSE i \in 1..Len(MetaUids) : MetaUids[i] = uid

ScoreResult(hotkey, score) ==
    [miner_id |-> hotkey, base |-> score, refund_multiplier |-> One,
     score |-> score]

----------------------------------------------------------------------------
(* Score sink: from score results to the weight vector *)

(* scores_by_uid: a later result of the same hotkey overwrites an earlier   *)
(* one; results whose hotkey is not in the metagraph are skipped            *)
RECURSIVE ScoresByUid(_)
ScoresByUid(scores) ==
    IF scores = <<>> THEN EmptyMap
    ELSE LET n == Len(scores)
             r == scores[n]
             rest == ScoresByUid(SubSeq(scores, 1, n - 1))
         IN IF InMetagraph(r.miner_id) /\ HotkeyIndex(r.miner_id) <= Len(MetaUids)
            THEN Put(rest, MetaUids[HotkeyIndex(r.miner_id)], r.score)
            ELSE rest

(* miner scores laid out in the reverse order of the uids *)
MinerScoresReversed(scores) ==
    LET by_uid == ScoresByUid(scores)
    IN [i \in 1..NumUids |-> Get(by_uid, MetaUids[NumUids + 1 - i], Zero)]

(* miner_scores = [scores_by_uid.get(uid, 0.0) for uid in uids] *)
MinerScores(scores) ==
    LET by_uid == ScoresByUid(scores)
    IN [i \in 1..NumUids |-> Get(by_uid, MetaUids[i], Zero)]

(* [s / total for s in miner_scores] *)
Normalized(miner_scores) ==
    LET total == SumVec(miner_scores)
    IN [i \in 1..Len(miner_scores) |-> RDiv(miner_scores[i], total)]

(* a fallback that leaves the weights as they are *)
SetOwnerWeightFallbackSkipped(weights, owner) == weights

(* _set_owner_weight_fallback: weights[owner_index] = 1.0 when resolved *)
SetOwnerWeightFallback(weights, owner) ==
    LET owner_index == GetOwnerIndex(owner)
    IN IF owner_index # None
       THEN [weights EXCEPT ![Val(owner_index)] = One]
       ELSE weights

(* an owner-only vector that pays the first uid of the metagraph *)
OwnerOnlyVectorFirstUid(owner) ==
    [i \in 1..NumUids |-> IF i = 1 THEN One ELSE Zero]

(* the owner-only vector of set_weights_to_owner_only *)
OwnerOnlyVector(owner) ==
    [ZeroVec(NumUids) EXCEPT ![Val(GetOwnerIndex(owner))] = One]

(* a redistribution that leaves the owner's own score in the pool *)
ApplyCreatorBurnOwnerInPool(miner_scores, creator_uid, burn_percentage) ==
    LET total == SumVec(miner_scores)
        n == Len(miner_scores)
    IN IF creator_uid = None
       THEN IF RLt(Zero, total) THEN Normalized(miner_scores) ELSE ZeroVec(n)
       ELSE LET c == UidIndex(Val(creator_uid))
                burn == RMin(Rat(burn_percentage, 100), One)
            IN IF RLeq(total, Zero)
               THEN [i \in 1..n |-> IF i = c THEN One ELSE Zero]
               ELSE [i \in 1..n |->
                        IF i = c THEN burn
                        ELSE RMul(RSub(One, burn), RDiv(miner_scores[i], total))]

(* bitads_v3_core.domain.creator_burn.apply_creator_burn (library): the     *)
(* owner's weight is forced to burn/100, the rest is shared by the others   *)
(* in proportion to their scores; an unresolved owner skips the burn; an    *)
(* empty proportional pool gives the owner everything                       *)
ApplyCreatorBurn(miner_scores, creator_uid, burn_percentage) ==
    LET total == SumVec(miner_scores)
        n == Len(miner_scores)
    IN IF creator_uid = None
       THEN IF RLt(Zero, total) THEN Normalized(miner_scores) ELSE ZeroVec(n)
       ELSE LET c == UidIndex(Val(creator_uid))
                burn == RMin(Rat(burn_percentage, 100), One)
                pool == RSub(total, miner_scores[c])
            IN IF RLeq(pool, Zero)
               THEN [i \in 1..n |-> IF i = c THEN One ELSE Zero]
               ELSE [i \in 1..n |->
                        IF i = c THEN burn
                        ELSE RMul(RSub(One, burn), RDiv(miner_scores[i], pool))]

(* weights_before_burn of publish *)
WeightsBeforeBurn(miner_scores, owner) ==
    IF RLt(Zero, SumVec(miner_scores))
    THEN Normalized(miner_scores)
    ELSE SetOwnerWeightFallback(ZeroVec(Len(miner_scores)), owner)

(* a publish that redistributes for every resolved percentage from 0 up *)
PublishWeightsBurnFromZero(scores, burn_percentage, owner) ==
    LET miner_scores == MinerScores(scores)
    IN IF burn_percentage # None /\ Val(burn_percentage) >= 0
       THEN LET w == ApplyCreatorBurn(miner_scores, GetOwnerUid(owner),
                                      Val(burn_percentage))
            IN IF SumVec(w) = Zero THEN SetOwnerWeightFallback(w, owner) ELSE w
       ELSE WeightsBeforeBurn(miner_scores, owner)

(* a publish that never redistributes *)
PublishWeightsWithoutBurn(scores, burn_percentage, owner) ==
    WeightsBeforeBurn(MinerScores(scores), owner)

(* publish, from the uid map to the weights handed to _set_weights *)
PublishWeights(scores, burn_percentage, owner) ==
    LET miner_scores == MinerScores(scores)
        before == WeightsBeforeBurn(miner_scores, owner)
    IN IF burn_percentage # None /\ Val(burn_percentage) > 0
       THEN LET w == ApplyCreatorBurn(miner_scores, GetOwnerUid(owner),
                                      Val(burn_percentage))
            IN IF SumVec(w) = Zero THEN SetOwnerWeightFallback(w, owner) ELSE w
       ELSE before

(* publish's first test: an empty or all-zero score list goes to the owner *)
EmptyScores(scores) ==
    \A i \in 1..Len(scores) : scores[i].score = Zero

(* a fallback that hands its vector whether or not the owner was found *)
OwnerOnlyCallUnchecked(owner) ==
    <<SetOwnerWeightFallback(ZeroVec(NumUids), owner)>>

(* What a call reaches _set_weights with: <<vector>>, or <<>> when the      *)
(* call returns (False, "Owner UID not found") before _set_weights          *)
OwnerOnlyCall(owner) ==
    IF GetOwnerIndex(owner) = None THEN <<>> ELSE <<OwnerOnlyVector(owner)>>

PublishCall(scores, burn_percentage, owner) ==
    IF EmptyScores(scores) THEN OwnerOnlyCall(owner)
    ELSE <<PublishWeights(scores, burn_percentage, owner)>>


----------------------------------------------------------------------------
(* Configuration and miner statistics (external inputs) *)

MechScopes == {"mech1", "mech2"}
MechScope(mech_id) == IF mech_id = 1 THEN "mech1" ELSE "mech2"

(* core/constants.py *)
DEFAULT_W_SALES == <<2, 5>>
DEFAULT_W_REV == <<3, 5>>
DEFAULT_EMA_ALPHA == <<1, 10>>
DEFAULT_USE_SOFT_CAP == FALSE
DEFAULT_SOFT_CAP_THRESHOLD == 3
DEFAULT_SOFT_CAP_FACTOR == <<3, 10>>

(* DynamicConfig of a mech scope, as far as the pipeline reads it *)
Config(mode, ms, mr, alpha, flooring) ==
    [mode |-> mode, manual_p95_sales |-> ms, manual_p95_revenue_usd |-> mr,
     ema_alpha |-> alpha, use_flooring |-> flooring,
     w_sales |-> DEFAULT_W_SALES, w_rev |-> DEFAULT_W_REV,
     use_soft_cap |-> DEFAULT_USE_SOFT_CAP,
     soft_cap_threshold |-> DEFAULT_SOFT_CAP_THRESHOLD,
     soft_cap_factor |-> DEFAULT_SOFT_CAP_FACTOR]

ConfigChoices ==
    { None,
      Some(Config("AUTO", None, None, <<1, 2>>, TRUE)),
      Some(Config("MANUAL", Some(<<4, 1>>), Some(<<8, 1>>), <<1, 2>>, TRUE)) }

(* the scopes whose dynamic config changes while the validator runs *)
ChangingScopes == {"mech1"}

(* get_default_config: what _process_weights scores with when the scope has *)
(* no dynamic config                                                        *)
GetDefaultConfig ==
    Config("AUTO", None, None, DEFAULT_EMA_ALPHA, FALSE)

(* ValidatorConfigSource.get_p95_config for a mech scope *)
GetP95Config(cfg) ==
    IF cfg # None THEN Val(cfg) ELSE GetDefaultConfig

Stats(sales, revenue_usd, refund_orders) ==
    [sales |-> sales, revenue_usd |-> revenue_usd,
     refund_orders |-> refund_orders]

(* What fetch_window may return for a campaign: (miner_id, stats) pairs *)
(* "hk_x" is not in the metagraph *)
StatsHigh == << <<"hk_m1", Stats(4, 8, 0)>> >>
StatsLow == << <<"hk_m2", Stats(2, 2, 1)>>, <<"hk_x", Stats(1, 4, 0)>> >>

StatsChoices == { <<>>, StatsHigh, StatsLow }

----------------------------------------------------------------------------
(* Percentiles: bitads_v3_core.domain.percentiles.compute_auto_p95 (library) *)

Percentiles(s, r) == [p95_sales |-> s, p95_revenue_usd |-> r]

(* nearest-rank 95th percentile of a list of integers; 0 for an empty list *)
NearestRank95(values) ==
    IF values = <<>> THEN 0
    ELSE LET n == Len(values)
             k == (95 * n + 99) \div 100
             below(v) == Cardinality({i \in 1..n : values[i] < v})
             upto(v) == Cardinality({i \in 1..n : values[i] <= v})
         IN CHOOSE v \in {values[i] : i \in 1..n} : below(v) < k /\ k <= upto(v)

Blend(alpha, raw, prior) ==
    RAdd(RMul(alpha, raw), RMul(RSub(One, alpha), prior))

ComputeAutoP95(stats, prev, alpha, use_flooring) ==
    LET raw_s == Rat(NearestRank95([i \in 1..Len(stats) |-> stats[i].sales]), 1)
        raw_r == Rat(NearestRank95([i \in 1..Len(stats) |-> stats[i].revenue_usd]), 1)
    IN IF prev = None THEN Percentiles(raw_s, raw_r)
       ELSE LET b_s == Blend(alpha, raw_s, Val(prev).p95_sales)
                b_r == Blend(alpha, raw_r, Val(prev).p95_revenue_usd)
            IN IF use_flooring
               THEN Percentiles(RMax(b_s, Val(prev).p95_sales),
                                RMax(b_r, Val(prev).p95_revenue_usd))
               ELSE Percentiles(b_s, b_r)

----------------------------------------------------------------------------
(* ValidatorP95Provider *)

(* a MANUAL branch that floors the configured ceilings at the previous      *)
(* thresholds                                                               *)
ComputeEffectiveP95ManualFloored(P, scope, cfg, fetched) ==
    LET p95_config == GetP95Config(cfg)
        ms == IF p95_config.manual_p95_sales = None THEN Zero
              ELSE Val(p95_config.manual_p95_sales)
        mr == IF p95_config.manual_p95_revenue_usd = None THEN Zero
              ELSE Val(p95_config.manual_p95_revenue_usd)
        v == IF scope \in DOMAIN P.prev
             THEN Percentiles(RMax(ms, P.prev[scope].p95_sales),
                              RMax(mr, P.prev[scope].p95_revenue_usd))
             ELSE Percentiles(ms, mr)
    IN [current |-> Put(P.current, scope, v), cache |-> P.cache,
        value |-> v, computed |-> TRUE, did_fetch |-> FALSE]

(* get_effective_p95(scope).  P is the provider's state, cfg the scope's    *)
(* dynamic config, fetched what fetch_window returns if it is called.       *)
(* The result is the new state, the value returned and what the call did.   *)
(* the part after the cache test: the thresholds are computed and stored   *)
ComputeEffectiveP95(P, scope, cfg, fetched) ==
    LET p95_config == GetP95Config(cfg)
    IN IF p95_config.mode = "MANUAL"
       THEN LET v == Percentiles(
                       IF p95_config.manual_p95_sales = None THEN Zero
                       ELSE Val(p95_config.manual_p95_sales),
                       IF p95_config.manual_p95_revenue_usd = None THEN Zero
                       ELSE Val(p95_config.manual_p95_revenue_usd))
            IN [current |-> Put(P.current, scope, v), cache |-> P.cache,
                value |-> v, computed |-> TRUE, did_fetch |-> FALSE]
       ELSE LET miner_stats_scope == Get(P.mapping, scope, scope)
                hit == miner_stats_scope \in DOMAIN P.cache
                miner_stats_list == IF hit THEN P.cache[miner_stats_scope]
                                    ELSE fetched
                cache2 == IF hit THEN P.cache
                          ELSE Put(P.cache, miner_stats_scope, fetched)
                stats == [i \in 1..Len(miner_stats_list) |->
                             miner_stats_list[i][2]]
                prev == IF scope \in DOMAIN P.prev THEN Some(P.prev[scope])
                        ELSE None
                use_flooring == IF cfg # None THEN Val(cfg).use_flooring
                                ELSE FALSE
                v == ComputeAutoP95(stats, prev, p95_config.ema_alpha,
                                    use_flooring)
            IN [current |-> Put(P.current, scope, v), cache |-> cache2,
                value |-> v, computed |-> TRUE, did_fetch |-> ~hit]

(* a provider whose computation forgets the thresholds of the other scopes *)
GetEffectiveP95Resetting(P, scope, cfg, fetched) ==
    IF scope \in DOMAIN P.current
    THEN [current |-> P.current, cache |-> P.cache, value |-> P.current[scope],
          computed |-> FALSE, did_fetch |-> FALSE]
    ELSE LET R == ComputeEffectiveP95(P, scope, cfg, fetched)
         IN [R EXCEPT !.current = Put(EmptyMap, scope, R.value)]

(* a provider that never answers from current_percentiles *)
GetEffectiveP95Recomputing(P, scope, cfg, fetched) ==
    ComputeEffectiveP95(P, scope, cfg, fetched)

GetEffectiveP95(P, scope, cfg, fetched) ==
    IF scope \in DOMAIN P.current
    THEN [current |-> P.current, cache |-> P.cache, value |-> P.current[scope],
          computed |-> FALSE, did_fetch |-> FALSE]
    ELSE ComputeEffectiveP95(P, scope, cfg, fetched)

(* whether get_effective_p95(scope) would call fetch_window *)
WouldFetch(P, scope, cfg) ==
    /\ scope \notin DOMAIN P.current
    /\ GetP95Config(cfg).mode # "MANUAL"
    /\ Get(P.mapping, scope, scope) \notin DOMAIN P.cache

(* set_miner_stats_cache / clear_miner_stats_cache(campaign_scope) *)
SetMinerStatsCache(cache, campaign_scope, miner_stats) ==
    Put(cache, campaign_scope, miner_stats)

ClearMinerStatsCache(cache, campaign_scope) ==
    Del(cache, campaign_scope)

(* an update that keeps the scopes of prev the epoch did not compute *)
UpdatePercentilesKeeping(P) ==
    [prev |-> [sc \in DOMAIN P.prev \cup DOMAIN P.current |->
                  IF sc \in DOMAIN P.current THEN P.current[sc] ELSE P.prev[sc]],
     current |-> EmptyMap, cache |-> EmptyMap]

(* update_percentiles: the new prev_percentiles, current_percentiles and    *)
(* _miner_stats_cache                                                       *)
UpdatePercentiles(P) ==
    [prev |-> P.current, current |-> EmptyMap, cache |-> EmptyMap]


----------------------------------------------------------------------------
(* Scoring: bitads_v3_core.app.scoring.ScoreCalculator (library) *)

(* a normalisation without the clamp at 1 *)
NormToUnclamped(value, ceiling) ==
    IF RLt(Zero, ceiling) THEN RDiv(value, ceiling) ELSE Zero

(* min(value / ceiling, 1.0) if ceiling > 0 else 0.0 *)
NormTo(value, ceiling) ==
    IF RLt(Zero, ceiling) THEN RMin(RDiv(value, ceiling), One) ELSE Zero

(* soft cap: the sales beyond the threshold count by the factor only *)
SoftCapped(sales, cfg) ==
    IF cfg.use_soft_cap /\ sales > cfg.soft_cap_threshold
    THEN RAdd(Rat(cfg.soft_cap_threshold, 1),
              RMul(cfg.soft_cap_factor,
                   Rat(sales - cfg.soft_cap_threshold, 1)))
    ELSE Rat(sales, 1)

ScoreOne(miner_id, st, p95, cfg) ==
    LET norm_sales == NormTo(SoftCapped(st.sales, cfg), p95.p95_sales)
        norm_rev == NormTo(Rat(st.revenue_usd, 1), p95.p95_revenue_usd)
        base == RAdd(RMul(cfg.w_sales, norm_sales), RMul(cfg.w_rev, norm_rev))
        refund == RSub(One, RMin(Rat(st.refund_orders,
                                     IF st.sales > 1 THEN st.sales ELSE 1), One))
    IN [miner_id |-> miner_id, base |-> base, refund_multiplier |-> refund,
        score |-> RMul(base, refund)]

ScoreMany(miner_stats_list, p95, cfg) ==
    [i \in 1..Len(miner_stats_list) |->
        ScoreOne(miner_stats_list[i][1], miner_stats_list[i][2], p95, cfg)]

----------------------------------------------------------------------------
(* Validator.compute_scores_for_campaign *)

(* minimum score of a miner that is only on the pending list *)
PENDING_MINER_MIN_SCORE == <<1, 100>>

(* a branch without miner stats that returns no results at all *)
ScoresWithoutStatsNothing(pending) == <<>>

(* no miner stats: zero for every metagraph hotkey, the minimum score for   *)
(* pending hotkeys of the metagraph                                         *)
ScoresWithoutStats(pending) ==
    [i \in 1..Len(MetaHotkeys) |->
        IF \E j \in 1..Len(pending) :
               InMetagraph(pending[j]) /\ HotkeyIndex(pending[j]) = i
        THEN ScoreResult(MetaHotkeys[i], PENDING_MINER_MIN_SCORE)
        ELSE ScoreResult(MetaHotkeys[i], Zero)]

(* an append without the miners_with_score bookkeeping: one entry for each  *)
(* listing of a pending hotkey                                              *)
AppendPendingEachListing(score_results, pending) ==
    LET fresh(hotkey) ==
            /\ InMetagraph(hotkey)
            /\ \A i \in 1..Len(score_results) :
                   score_results[i].miner_id # hotkey
        listed == SelectSeq(pending, fresh)
    IN score_results \o
       [j \in 1..Len(listed) |->
           ScoreResult(listed[j], PENDING_MINER_MIN_SCORE)]

(* miner stats: pending hotkeys of the metagraph without a score are        *)
(* appended with the minimum score, once each                               *)
RECURSIVE AppendPending(_, _)
AppendPending(score_results, pending) ==
    IF pending = <<>> THEN score_results
    ELSE LET hotkey == Head(pending)
             has == \E i \in 1..Len(score_results) :
                        score_results[i].miner_id = hotkey
         IN IF ~has /\ InMetagraph(hotkey)
            THEN AppendPending(
                     Append(score_results,
                            ScoreResult(hotkey, PENDING_MINER_MIN_SCORE)),
                     Tail(pending))
            ELSE AppendPending(score_results, Tail(pending))

(* The call as a whole.  P is the provider's state; fetched and p95_fetched *)
(* are what fetch_window returns to the validator and, if it fetches, to    *)
(* the provider; raises says that score_many raises after it has asked for  *)
(* the thresholds.                                                          *)
ComputeScoresForCampaign(P, campaign, cfg, fetched, p95_fetched, pending, raises) ==
    IF fetched = <<>>
    THEN [current |-> P.current, cache |-> P.cache, raised |-> FALSE,
          score_results |-> ScoresWithoutStats(pending), call |-> None]
    ELSE LET mech_scope == MechScope(campaign.mech_id)
             scope_config == IF cfg = None THEN GetDefaultConfig ELSE Val(cfg)
             cached == [P EXCEPT !.cache =
                           SetMinerStatsCache(P.cache, campaign.scope, fetched)]
             G == GetEffectiveP95(cached, mech_scope, cfg, p95_fetched)
             redo == ComputeEffectiveP95(cached, mech_scope, cfg, p95_fetched)
             call == [scope |-> mech_scope, value |-> G.value,
                      computed |-> G.computed, did_fetch |-> G.did_fetch,
                      redo_differs |-> redo.value # G.value]
         IN IF raises
            THEN [current |-> G.current, cache |-> G.cache, raised |-> TRUE,
                  score_results |-> <<>>, call |-> Some(call)]
            ELSE [current |-> G.current,
                  cache |-> ClearMinerStatsCache(G.cache, campaign.scope),
                  raised |-> FALSE,
                  score_results |->
                      AppendPending(ScoreMany(fetched, G.value, scope_config),
                                    pending),
                  call |-> Some(call)]

----------------------------------------------------------------------------
(* Validator._process_weights: shares, per-campaign vector, aggregation *)

Campaign(scope, mech_id, emission_split) ==
    [scope |-> scope, mech_id |-> mech_id, emission_split |-> emission_split]

CampaignLists ==
    { <<>>,
      << Campaign("A", 1, None) >>,
      << Campaign("A", 1, None), Campaign("B", 1, None) >>,
      << Campaign("B", 1, Some(70)), Campaign("A", 1, Some(30)) >>,
      << Campaign("A", 1, Some(50)), Campaign("C", 2, None) >> }

Declares(c) == c.emission_split # None /\ Val(c.emission_split) > 0

RECURSIVE SumSplits(_)
SumSplits(cs) ==
    IF cs = <<>> THEN 0
    ELSE (IF Declares(Head(cs)) THEN Val(Head(cs).emission_split) ELSE 0)
         + SumSplits(Tail(cs))

(* shares that take a declared split as a percentage of the whole *)
CampaignWeightsAsPercent(cs) ==
    IF \E i \in 1..Len(cs) : Declares(cs[i])
    THEN [i \in 1..Len(cs) |->
             IF Declares(cs[i]) THEN Rat(Val(cs[i].emission_split), 100)
             ELSE Zero]
    ELSE [i \in 1..Len(cs) |-> Rat(1, Len(cs))]

(* shares that give a campaign without a split the uniform share *)
CampaignWeightsUniformRest(cs) ==
    IF \E i \in 1..Len(cs) : Declares(cs[i])
    THEN [i \in 1..Len(cs) |->
             IF Declares(cs[i])
             THEN Rat(Val(cs[i].emission_split), SumSplits(cs))
             ELSE Rat(1, Len(cs))]
    ELSE [i \in 1..Len(cs) |-> Rat(1, Len(cs))]

(* campaign_weights, as the list of campaign_weights.get(c.scope, 0.0) *)
CampaignWeights(cs) ==
    IF \E i \in 1..Len(cs) : Declares(cs[i])
    THEN [i \in 1..Len(cs) |->
             IF Declares(cs[i])
             THEN Rat(Val(cs[i].emission_split), SumSplits(cs))
             ELSE Zero]
    ELSE [i \in 1..Len(cs) |-> Rat(1, Len(cs))]

(* campaign_weights_vec of one campaign *)
CampaignWeightsVec(score_results, burn_percentage, owner) ==
    LET miner_scores == MinerScores(score_results)
    IN IF burn_percentage # None /\ Val(burn_percentage) > 0
       THEN LET w == ApplyCreatorBurn(miner_scores, GetOwnerUid(owner),
                                      Val(burn_percentage))
            IN IF SumVec(w) = Zero /\ GetOwnerIndex(owner) # None
               THEN OwnerOnlyVector(owner)
               ELSE w
       ELSE WeightsBeforeBurn(miner_scores, owner)

(* an aggregation that adds the vectors without their shares *)
AggregateUnweighted(aggregated, emission_weight, vec) ==
    IF RLeq(emission_weight, Zero) THEN aggregated
    ELSE [i \in 1..Len(aggregated) |-> RAdd(aggregated[i], vec[i])]

(* aggregated_scores[idx] += emission_weight * w, skipped for a share of 0 *)
Aggregate(aggregated, emission_weight, vec) ==
    IF RLeq(emission_weight, Zero) THEN aggregated
    ELSE [i \in 1..Len(aggregated) |->
             RAdd(aggregated[i], RMul(emission_weight, vec[i]))]

(* an except branch that also gives up the campaign after the failed one *)
AfterCampaignErrorSkipping(aggregated, i) ==
    [aggregated_scores |-> aggregated, idx |-> i + 2]

(* the except branch of the campaign loop: the error is logged and counted, *)
(* the aggregate is as it was, the loop goes on with the next campaign      *)
AfterCampaignError(aggregated, i) ==
    [aggregated_scores |-> aggregated, idx |-> i + 1]

(* a loop that ends after its first campaign *)
LoopDoneAfterFirst(i, cs) == i > 1 \/ i > Len(cs)

(* the for loop over the campaigns has ended *)
LoopDone(i, cs) == i > Len(cs)

(* final_scores = [s / total_agg for s in aggregated_scores] *)
FinalScores(aggregated) == Normalized(aggregated)

AggregatedResults(final_scores) ==
    [i \in 1..Len(MetaHotkeys) |-> ScoreResult(MetaHotkeys[i], final_scores[i])]

(* a publish that burns whatever its flag says *)
PublishBurnAlways(apply_burn, resolved) == resolved

(* publish(..., apply_burn=False): the burn percentage publish works with   *)
PublishBurn(apply_burn, resolved) ==
    IF apply_burn THEN resolved ELSE None

(* a _process_weights that submits the owner-only vector after its publish *)
FinalCallWithFallback(cs, aggregated, resolved_burn, owner) ==
    IF cs = <<>> \/ SumVec(aggregated) = Zero THEN OwnerOnlyCall(owner)
    ELSE PublishCall(AggregatedResults(FinalScores(aggregated)),
                     PublishBurn(FALSE, resolved_burn), owner)
         \o OwnerOnlyCall(owner)

(* What _process_weights reaches _set_weights with: <<vector>> or <<>> *)
FinalCall(cs, aggregated, resolved_burn, owner) ==
    IF cs = <<>> THEN OwnerOnlyCall(owner)
    ELSE IF SumVec(aggregated) = Zero THEN OwnerOnlyCall(owner)
    ELSE PublishCall(AggregatedResults(FinalScores(aggregated)),
                     PublishBurn(FALSE, resolved_burn), owner)


----------------------------------------------------------------------------
(* ValidatorScoreSink._set_weights *)

max_retries == 5

(* what the extrinsic does at each attempt; attempts after the first one    *)
(* that does not fail are never made                                        *)
AttemptOutcomes ==
    { o \in [1..max_retries -> {"ok", "fail", "raise"}] :
        \A i \in 1..max_retries : \A j \in 1..(i - 1) :
            o[j] # "fail" => o[i] = "fail" }

(* a loop that gives up after its first attempt *)
RetryLoopNoRetry(limit, retries, success, message, outcomes) ==
    IF retries < limit /\ ~success
    THEN IF outcomes[retries + 1] = "raise"
         THEN [success |-> FALSE, attempts |-> retries + 1, raised |-> TRUE,
               successes |-> 0, message |-> message]
         ELSE [success |-> outcomes[retries + 1] = "ok",
               attempts |-> retries + 1, raised |-> FALSE,
               successes |-> IF outcomes[retries + 1] = "ok" THEN 1 ELSE 0,
               message |-> <<"attempt", retries + 1>>]
    ELSE [success |-> success, attempts |-> retries, raised |-> FALSE,
          successes |-> IF success THEN 1 ELSE 0, message |-> message]

(* the while loop: one extrinsic per pass, until success or max_retries     *)
(* (limit); success and message are those of the last pass                  *)
RECURSIVE RetryLoop(_, _, _, _, _)
RetryLoop(limit, retries, success, message, outcomes) ==
    IF retries < limit /\ ~success
    THEN IF outcomes[retries + 1] = "raise"
         THEN [success |-> FALSE, attempts |-> retries + 1, raised |-> TRUE,
               successes |-> 0, message |-> message]
         ELSE RetryLoop(limit, retries + 1, outcomes[retries + 1] = "ok",
                        <<"attempt", retries + 1>>, outcomes)
    ELSE [success |-> success, attempts |-> retries, raised |-> FALSE,
          successes |-> IF success THEN 1 ELSE 0, message |-> message]

(* _set_weights(..., max_retries=limit); registered:                        *)
(* get_uid_for_hotkey_on_subnet(...) is not None                            *)
SetWeightsWith(limit, registered, outcomes) ==
    IF ~registered
    THEN [success |-> FALSE, attempts |-> 0, raised |-> FALSE, successes |-> 0,
          message |-> <<"not_registered", 0>>]
    ELSE RetryLoop(limit, 0, FALSE, <<"no_attempt", 0>>, outcomes)

(* _set_weights as publish and set_weights_to_owner_only call it *)
SetWeights(registered, outcomes) ==
    SetWeightsWith(max_retries, registered, outcomes)

----------------------------------------------------------------------------
(* The validator loop *)

Provider ==
    [prev |-> prev_percentiles, current |-> current_percentiles,
     cache |-> miner_stats_cache, mapping |-> mech_scope_to_campaign_scope]

(* a mapping whose primary campaign is the last campaign of each mech *)
BuildMappingLast(cs) ==
    [mech_scope \in {MechScope(cs[i].mech_id) : i \in 1..Len(cs)} |->
        LET last == CHOOSE i \in 1..Len(cs) :
                        /\ MechScope(cs[i].mech_id) = mech_scope
                        /\ \A j \in (i + 1)..Len(cs) :
                               MechScope(cs[j].mech_id) # mech_scope
        IN cs[last].scope]

(* _initialize_core_components: the first campaign of each mech is primary *)
RECURSIVE BuildMapping(_)
BuildMapping(cs) ==
    IF cs = <<>> THEN EmptyMap
    ELSE LET n == Len(cs)
             rest == BuildMapping(SubSeq(cs, 1, n - 1))
             mech_scope == MechScope(cs[n].mech_id)
         IN IF mech_scope \in DOMAIN rest THEN rest
            ELSE Put(rest, mech_scope, cs[n].scope)

InitCampaignLists ==
    { << Campaign("A", 1, None), Campaign("B", 1, None) >> }

(* What one campaign's fetches return: miner stats, pending miners and the  *)
(* burn percentage its resolver gives                                       *)
CampaignInput(fetched, pending, burn) ==
    [fetched |-> fetched, pending |-> pending, burn |-> burn]

CampaignInputs ==
    { CampaignInput(<<>>, <<>>, None),
      CampaignInput(<<>>, <<>>, Some(30)),
      CampaignInput(<<>>, <<"hk_x", "hk_m2">>, Some(30)),
      CampaignInput(StatsHigh, <<>>, Some(30)),
      CampaignInput(StatsLow, <<"hk_x", "hk_m2">>, None),
      CampaignInput(StatsLow, <<>>, None) }

NoLocals ==
    /\ campaigns = <<>>
    /\ campaign_weights = <<>>
    /\ idx = 1
    /\ aggregated_scores = ZeroVec(NumUids)
    /\ handed = <<>>
    /\ failed = {}
    /\ scored = {}
    /\ idle = {}
    /\ vectors = <<>>
    /\ contrib_sum = ZeroVec(NumUids)
    /\ calls = 0
    /\ attempts = 0
    /\ at_submit = None

Init ==
    /\ pc = "loop"
    /\ tempo = MaxBlocks
    /\ last_update \in 0..MaxBlocks
    /\ epoch = 0
    /\ owner_hotkey \in OwnerHotkeys
    /\ dyn_config \in { f \in [MechScopes -> ConfigChoices] :
                           \A sc \in MechScopes \ ChangingScopes : f[sc] = None }
    /\ \E cs \in InitCampaignLists :
           mech_scope_to_campaign_scope = BuildMapping(cs)
    /\ prev_percentiles = EmptyMap
    /\ current_percentiles = EmptyMap
    /\ miner_stats_cache = EmptyMap
    /\ NoLocals
    /\ result = None
    /\ advances = 0
    /\ carried = None
    /\ p95_returned = EmptyMap
    /\ p95_stable = TRUE
    /\ p95_rehit = FALSE
    /\ p95_floor = EmptyMap
    /\ sink_scores = <<>>
    /\ sink_burn = None
    /\ p95_call = None
    /\ score_in = None
    /\ campaign_call = None
    /\ stats_source = None
    /\ burn_percentage_override = None
    /\ burn_call = None
    /\ set_weights_call = None
    /\ config_source = None
    /\ campaign_fetch = None
    /\ version_call = None
    /\ caught = None

(* _sync_and_process, last_update < tempo: _sleep_until_next_update; the    *)
(* next sync may find another subnet owner                                  *)
(* a handler that lets a RuntimeError end the loop *)
RunHandlerStopping(exc) ==
    IF exc = "KeyboardInterrupt" THEN "stopped" ELSE "crashed"

(* run(): where the loop is after an exception left _sync_and_process:      *)
(* RuntimeError is logged and the loop goes on, KeyboardInterrupt breaks,   *)
(* anything else leaves run()                                               *)
RunHandler(exc) ==
    IF exc = "RuntimeError" THEN "loop"
    ELSE IF exc = "KeyboardInterrupt" THEN "stopped"
    ELSE "crashed"

SleepTo(owners) ==
    /\ pc = "loop"
    /\ last_update < tempo
    /\ last_update' \in (last_update + 1)..MaxBlocks
    /\ owner_hotkey' \in owners
    /\ UNCHANGED <<pc, tempo, dyn_config, mech_scope_to_campaign_scope,
                   campaigns, campaign_weights, idx, aggregated_scores,
                   prev_percentiles, current_percentiles, miner_stats_cache,
                   handed, history_vars, sink_vars>>
    /\ caught' = None

(* _sync_and_process without its `last_update >= tempo` test *)
BeginProcessOfUngated(lists, max_epochs) ==
    /\ pc = "loop"
    /\ epoch < max_epochs
    /\ \E cs \in lists :
        /\ campaigns' = cs
        /\ campaign_weights' = CampaignWeights(cs)
    /\ idx' = 1
    /\ aggregated_scores' = ZeroVec(NumUids)
    /\ epoch' = epoch + 1
    /\ pc' = "campaigns"
    /\ handed' = <<>>
    /\ calls' = 0
    /\ attempts' = 0
    /\ result' = None
    /\ advances' = 0
    /\ failed' = {}
    /\ scored' = {}
    /\ idle' = {}
    /\ vectors' = <<>>
    /\ contrib_sum' = ZeroVec(NumUids)
    /\ at_submit' = None
    /\ carried' = None
    /\ p95_rehit' = FALSE
    /\ UNCHANGED <<last_update, tempo, owner_hotkey, dyn_config,
                   mech_scope_to_campaign_scope, prev_percentiles,
                   current_percentiles, miner_stats_cache, p95_returned,
                   p95_stable, p95_floor, sink_vars, caught>>

(* _sync_and_process, last_update >= tempo: _process_weights begins *)
BeginProcessOf(lists, max_epochs) ==
    /\ pc = "loop"
    /\ last_update >= tempo
    /\ epoch < max_epochs
    /\ \E cs \in lists :
        /\ campaigns' = cs
        /\ campaign_weights' = CampaignWeights(cs)
    /\ idx' = 1
    /\ aggregated_scores' = ZeroVec(NumUids)
    /\ epoch' = epoch + 1
    /\ pc' = "campaigns"
    /\ handed' = <<>>
    /\ calls' = 0
    /\ attempts' = 0
    /\ result' = None
    /\ advances' = 0
    /\ failed' = {}
    /\ scored' = {}
    /\ idle' = {}
    /\ vectors' = <<>>
    /\ contrib_sum' = ZeroVec(NumUids)
    /\ at_submit' = None
    /\ carried' = None
    /\ p95_rehit' = FALSE
    /\ UNCHANGED <<last_update, tempo, owner_hotkey, dyn_config,
                   mech_scope_to_campaign_scope, prev_percentiles,
                   current_percentiles, miner_stats_cache, p95_returned,
                   p95_stable, p95_floor, sink_vars, caught>>

PMax(a, b) ==
    Percentiles(RMax(a.p95_sales, b.p95_sales),
                RMax(a.p95_revenue_usd, b.p95_revenue_usd))

(* history: the floor a scope's thresholds have reached under flooring *)
FloorAfter(floor, call, cfg) ==
    IF call # None /\ Val(call).computed
    THEN LET c == Val(call)
         IN IF cfg # None /\ Val(cfg).use_flooring /\ Val(cfg).mode = "AUTO"
            THEN Put(floor, c.scope,
                     IF c.scope \in DOMAIN floor
                     THEN PMax(floor[c.scope], c.value) ELSE c.value)
            ELSE Del(floor, c.scope)
    ELSE floor

(* one pass of the for loop of _process_weights; outcome says whether the   *)
(* pass completes or where it raises; fetches is what the provider's own    *)
(* fetch_window call may return                                             *)
ProcessCampaignFrom(inputs, outcomes, fetches) ==
    /\ pc = "campaigns"
    /\ ~LoopDone(idx, campaigns)
    /\ \E in \in inputs, outcome \in outcomes :
        /\ outcome = "score_raises" => in.fetched # <<>>
        /\ outcome # "ok" => in.pending = <<>> /\ in.burn = None
        /\ LET campaign == campaigns[idx]
               mech_scope == MechScope(campaign.mech_id)
               cfg == dyn_config[mech_scope]
               cached == [Provider EXCEPT !.cache =
                             SetMinerStatsCache(miner_stats_cache,
                                                campaign.scope, in.fetched)]
           IN \E p95_fetched \in
                    IF in.fetched # <<>> /\ WouldFetch(cached, mech_scope, cfg)
                    THEN fetches ELSE {<<>>} :
              \E R \in {ComputeScoresForCampaign(Provider, campaign, cfg,
                            in.fetched, p95_fetched, in.pending,
                            outcome = "score_raises")} :
              \E vec \in {IF outcome # "ok" THEN ZeroVec(NumUids)
                          ELSE CampaignWeightsVec(R.score_results, in.burn,
                                                  owner_hotkey)} :
                /\ current_percentiles' = R.current
                /\ miner_stats_cache' = R.cache
                /\ p95_floor' = FloorAfter(p95_floor, R.call, cfg)
                /\ IF R.call = None
                   THEN UNCHANGED <<p95_returned, p95_stable, p95_rehit>>
                   ELSE \E c \in {Val(R.call)} :
                        IF c.scope \in DOMAIN p95_returned
                        THEN /\ p95_returned' = p95_returned
                             /\ p95_stable' =
                                   (/\ p95_stable
                                    /\ c.value = p95_returned[c.scope]
                                    /\ ~c.computed
                                    /\ ~c.did_fetch)
                             /\ p95_rehit' = (p95_rehit \/ c.redo_differs)
                        ELSE /\ p95_returned' = Put(p95_returned, c.scope, c.value)
                             /\ UNCHANGED <<p95_stable, p95_rehit>>
                /\ IF outcome # "ok"
                   THEN \E E \in {AfterCampaignError(aggregated_scores, idx)} :
                           /\ aggregated_scores' = E.aggregated_scores
                           /\ idx' = E.idx
                           /\ failed' = failed \cup {idx}
                           /\ UNCHANGED <<contrib_sum, scored, idle>>
                           /\ vectors' = Append(vectors, ZeroVec(NumUids))
                   ELSE /\ aggregated_scores' =
                               Aggregate(aggregated_scores,
                                         campaign_weights[idx], vec)
                        /\ idx' = idx + 1
                        /\ scored' = scored \cup {idx}
                        /\ idle' = IF EmptyScores(R.score_results)
                                   THEN idle \cup {idx} ELSE idle
                        /\ vectors' = Append(vectors, vec)
                        /\ contrib_sum' =
                               [i \in 1..NumUids |->
                                   RAdd(contrib_sum[i],
                                        RMul(campaign_weights[idx], vec[i]))]
                        /\ UNCHANGED failed
    /\ UNCHANGED <<pc, last_update, tempo, owner_hotkey, dyn_config,
                   mech_scope_to_campaign_scope, campaigns, campaign_weights,
                   prev_percentiles, handed, epoch, calls, attempts, result,
                   advances, at_submit, carried, sink_vars, caught>>

ProcessCampaignWith(inputs, outcomes) ==
    ProcessCampaignFrom(inputs, outcomes, StatsChoices)

(* the end of _process_weights up to its _set_weights call: the owner-only  *)
(* fallback or the publish of the aggregate.  When the owner is not found   *)
(* there is no call and _process_weights returns.                           *)
(* the end of _process_weights; resolved_burns: what the burn resolver      *)
(* would return for the primary scope                                       *)
SubmitWith(resolved_burns) ==
    /\ pc = "campaigns"
    /\ LoopDone(idx, campaigns)
    /\ \E resolved \in resolved_burns :
       \E call \in {FinalCall(campaigns, aggregated_scores, resolved,
                              owner_hotkey)} :
        /\ handed' = call
        /\ calls' = calls + Len(call)
        /\ IF call = <<>>
           THEN /\ pc' = "advance"
                /\ result' = Some([success |-> FALSE, raised |-> FALSE])
           ELSE /\ pc' = "set_weights"
                /\ UNCHANGED result
    /\ at_submit' = Some([prev |-> prev_percentiles,
                          current |-> current_percentiles,
                          cache |-> miner_stats_cache])
    /\ UNCHANGED <<last_update, tempo, owner_hotkey, dyn_config,
                   mech_scope_to_campaign_scope, campaigns, campaign_weights,
                   idx, aggregated_scores, prev_percentiles,
                   current_percentiles, miner_stats_cache, epoch, attempts,
                   advances, failed, scored, idle, vectors, contrib_sum, p95_returned,
                   p95_stable, p95_rehit, p95_floor, carried, sink_vars, caught>>

(* _process_weights ends; its publish is handed no burn percentage *)
Submit == SubmitWith({None})

(* _set_weights and the return of _process_weights.  An exception of the    *)
(* extrinsic leaves _process_weights and _sync_and_process: run() catches a *)
(* RuntimeError and loops, anything else ends the validator.                *)
SetWeightsCallWith(registrations, attempt_outcomes) ==
    /\ pc = "set_weights"
    /\ \E registered \in registrations, outcomes \in attempt_outcomes,
          exc \in {"RuntimeError", "Exception"} :
        \E r \in {SetWeights(registered, outcomes)} :
           /\ exc = "Exception" => r.raised
           /\ attempts' = attempts + r.attempts
           /\ result' = Some([success |-> r.success, raised |-> r.raised])
           /\ pc' = IF ~r.raised THEN "advance" ELSE RunHandler(exc)
           /\ caught' = IF r.raised THEN Some(exc) ELSE caught
    /\ handed' = <<>>
    /\ campaigns' = <<>>
    /\ campaign_weights' = <<>>
    /\ idx' = 1
    /\ aggregated_scores' = ZeroVec(NumUids)
    /\ failed' = {}
    /\ scored' = {}
    /\ idle' = {}
    /\ vectors' = <<>>
    /\ contrib_sum' = ZeroVec(NumUids)
    /\ UNCHANGED <<last_update, tempo, owner_hotkey, dyn_config,
                   mech_scope_to_campaign_scope, prev_percentiles,
                   current_percentiles, miner_stats_cache, epoch, calls,
                   advances, p95_returned, p95_stable, p95_rehit, p95_floor,
                   at_submit, carried, sink_vars>>

(* a tail that updates the percentiles only after a successful submission *)
SyncAndProcessTailOnSuccess(P, res) ==
    IF res # None /\ Val(res).success THEN UpdatePercentiles(P)
    ELSE [prev |-> P.prev, current |-> P.current, cache |-> P.cache]

(* _sync_and_process after _process_weights has returned, whatever the      *)
(* submission returned: update_percentiles()                                *)
SyncAndProcessTail(P, res) ==
    UpdatePercentiles(P)

Advance ==
    /\ pc = "advance"
    /\ \E U \in {SyncAndProcessTail(Provider, result)} :
          /\ prev_percentiles' = U.prev
          /\ current_percentiles' = U.current
          /\ miner_stats_cache' = U.cache
    /\ carried' = Some(current_percentiles)
    /\ last_update' = 0
    /\ advances' = advances + 1
    /\ p95_returned' = EmptyMap
    /\ pc' = "loop"
    /\ handed' = <<>>
    /\ campaigns' = <<>>
    /\ campaign_weights' = <<>>
    /\ idx' = 1
    /\ aggregated_scores' = ZeroVec(NumUids)
    /\ failed' = {}
    /\ scored' = {}
    /\ idle' = {}
    /\ vectors' = <<>>
    /\ contrib_sum' = ZeroVec(NumUids)
    /\ calls' = 0
    /\ attempts' = 0
    /\ at_submit' = None
    /\ result' = None
    /\ UNCHANGED <<tempo, owner_hotkey, dyn_config,
                   mech_scope_to_campaign_scope, epoch, p95_stable,
                   p95_rehit, p95_floor, sink_vars>>
    /\ caught' = None

(* KeyboardInterrupt while the campaigns are processed: run() leaves its loop *)
Interrupt ==
    /\ pc = "campaigns"
    /\ ~LoopDone(idx, campaigns)
    /\ pc' = RunHandler("KeyboardInterrupt")
    /\ caught' = Some("KeyboardInterrupt")
    /\ UNCHANGED <<last_update, tempo, owner_hotkey, dyn_config,
                   mech_scope_to_campaign_scope, campaigns, campaign_weights,
                   idx, aggregated_scores, prev_percentiles,
                   current_percentiles, miner_stats_cache, handed,
                   history_vars, sink_vars>>

(* the dynamic configuration of a mech scope changes at its source; the     *)
(* floor history of the scope ends when flooring in AUTO mode is given up   *)
ConfigChange ==
    /\ pc = "campaigns"
    /\ ~LoopDone(idx, campaigns)
    /\ \E scope \in ChangingScopes, c \in ConfigChoices :
        /\ c # dyn_config[scope]
        /\ dyn_config' = [dyn_config EXCEPT ![scope] = c]
        /\ p95_floor' = IF c # None /\ Val(c).use_flooring /\ Val(c).mode = "AUTO"
                        THEN p95_floor ELSE Del(p95_floor, scope)
    /\ UNCHANGED <<pc, last_update, tempo, owner_hotkey,
                   mech_scope_to_campaign_scope, campaigns, campaign_weights,
                   idx, aggregated_scores, prev_percentiles,
                   current_percentiles, miner_stats_cache, handed, epoch,
                   calls, attempts, result, advances, failed, scored, idle, vectors,
                   contrib_sum, p95_returned, p95_stable, p95_rehit, at_submit,
                   carried, sink_vars, caught>>

----------------------------------------------------------------------------
(* One epoch of the validator with every kind of campaign list, campaign    *)
(* input and submission outcome                                             *)

CampaignOutcomes == {"ok", "score_raises", "burn_raises"}

Sleep == SleepTo(OwnerHotkeys)

BeginProcess == BeginProcessOf(CampaignLists, MaxEpochs)

ProcessCampaign == ProcessCampaignWith(CampaignInputs, CampaignOutcomes)

SetWeightsCall == SetWeightsCallWith(BOOLEAN, AttemptOutcomes)

Next ==
    \/ Sleep
    \/ BeginProcess
    \/ ProcessCampaign
    \/ Submit
    \/ SetWeightsCall
    \/ Advance
    \/ Interrupt
    \/ ConfigChange

Spec == Init /\ [][Next]_vars

----------------------------------------------------------------------------
(* Several epochs of one campaign: what the provider carries from epoch to  *)
(* epoch                                                                    *)

CarryLists == { <<>>, << Campaign("A", 1, None) >> }

CarryInputs ==
    { CampaignInput(<<>>, <<>>, None),
      CampaignInput(StatsHigh, <<>>, None),
      CampaignInput(StatsLow, <<>>, None) }

CarryOutcomes == {"ok", "score_raises"}

CarryAttemptOutcomes ==
    { o \in AttemptOutcomes : \A i \in 2..max_retries : o[i] = "fail" }

CarrySleep == SleepTo({owner_hotkey})

CarryBeginProcess == BeginProcessOf(CarryLists, MaxCarryEpochs)

CarryProcessCampaign == ProcessCampaignWith(CarryInputs, CarryOutcomes)

CarrySetWeightsCall == SetWeightsCallWith({TRUE}, CarryAttemptOutcomes)

CarryNext ==
    \/ CarrySleep
    \/ CarryBeginProcess
    \/ CarryProcessCampaign
    \/ Submit
    \/ CarrySetWeightsCall
    \/ Advance
    \/ ConfigChange

CarrySpec == Init /\ [][CarryNext]_vars

(* the same epochs with a KeyboardInterrupt possible during the campaigns *)
RunNext ==
    \/ CarryNext
    \/ Interrupt

RunSpec == Init /\ [][RunNext]_vars

----------------------------------------------------------------------------
(* The score sink called directly: publish with any score list and burn     *)
(* percentage, set_weights_to_owner_only                                    *)

SinkHotkeys == {"hk_m1", "hk_owner", "hk_x"}
SinkScoreValues == { Zero, <<1, 2>>, One }
SinkBurns == { None, Some(-10), Some(0), Some(30), Some(100), Some(150) }

SinkScoreLists ==
    UNION { [1..n -> { ScoreResult(h, v) : h \in SinkHotkeys,
                                           v \in SinkScoreValues }] :
            n \in 0..MaxScores }

(* one result per hotkey, as the callers of publish build their lists: the  *)
(* two miners, the owner and a hotkey that left the metagraph               *)
SinkRoster == <<"hk_m1", "hk_m2", "hk_owner", "hk_x">>
SinkRosterValues == { Zero, <<1, 5>>, <<3, 10>>, <<1, 2>> }

SinkRosterLists ==
    { [i \in 1..Len(SinkRoster) |-> ScoreResult(SinkRoster[i], v[i])] :
        v \in [1..Len(SinkRoster) -> SinkRosterValues] }

SinkInit ==
    /\ pc = "sink"
    /\ tempo = MaxBlocks
    /\ last_update = 0
    /\ epoch = 0
    /\ owner_hotkey \in OwnerHotkeys
    /\ dyn_config = [sc \in MechScopes |-> None]
    /\ mech_scope_to_campaign_scope = EmptyMap
    /\ prev_percentiles = EmptyMap
    /\ current_percentiles = EmptyMap
    /\ miner_stats_cache = EmptyMap
    /\ NoLocals
    /\ result = None
    /\ advances = 0
    /\ carried = None
    /\ p95_returned = EmptyMap
    /\ p95_stable = TRUE
    /\ p95_rehit = FALSE
    /\ p95_floor = EmptyMap
    /\ sink_scores \in SinkScoreLists \cup SinkRosterLists
    /\ sink_burn \in SinkBurns
    /\ p95_call = None
    /\ score_in = None
    /\ campaign_call = None
    /\ stats_source = None
    /\ burn_percentage_override = None
    /\ burn_call = None
    /\ set_weights_call = None
    /\ config_source = None
    /\ campaign_fetch = None
    /\ version_call = None
    /\ caught = None

SinkUnchanged ==
    UNCHANGED <<last_update, tempo, owner_hotkey, dyn_config,
                mech_scope_to_campaign_scope, campaigns, campaign_weights, idx,
                aggregated_scores, prev_percentiles, current_percentiles,
                miner_stats_cache, epoch, attempts, result, advances, failed,
                scored, idle, vectors, contrib_sum, p95_returned, p95_stable, p95_rehit,
                p95_floor, at_submit, carried, sink_vars, caught>>

(* publish(scores, scope), up to its call of _set_weights *)
SinkPublish ==
    /\ pc = "sink"
    /\ handed' = PublishCall(sink_scores, sink_burn, owner_hotkey)
    /\ calls' = calls + Len(handed')
    /\ pc' = "published"
    /\ SinkUnchanged

(* set_weights_to_owner_only(), up to its call of _set_weights *)
SinkOwnerOnly ==
    /\ pc = "sink"
    /\ handed' = OwnerOnlyCall(owner_hotkey)
    /\ calls' = calls + Len(handed')
    /\ pc' = "owner_only"
    /\ SinkUnchanged

SinkNext ==
    \/ SinkPublish
    \/ SinkOwnerOnly

SinkSpec == SinkInit /\ [][SinkNext]_vars

----------------------------------------------------------------------------
(* The percentile provider called directly: get_effective_p95 for a scope,  *)
(* at any point of an epoch                                                 *)

ProviderScope == "mech1"

ProviderConfigs ==
    { None,
      Some(Config("AUTO", None, None, <<1, 2>>, TRUE)),
      Some(Config("MANUAL", Some(<<4, 1>>), Some(<<8, 1>>), <<1, 2>>, TRUE)),
      Some(Config("MANUAL", Some(<<4, 1>>), Some(<<8, 1>>), <<1, 2>>, FALSE)),
      Some(Config("MANUAL", None, Some(<<8, 1>>), <<1, 2>>, FALSE)) }

(* thresholds earlier epochs may have left in prev_percentiles *)
ProviderPrevChoices ==
    { EmptyMap,
      Put(EmptyMap, ProviderScope, Percentiles(<<2, 1>>, <<4, 1>>)),
      Put(EmptyMap, ProviderScope, Percentiles(<<6, 1>>, <<12, 1>>)) }

(* what the epoch may already hold for the scope: nothing, or the           *)
(* thresholds an earlier call of the epoch computed from some stats while   *)
(* the scope's config was the AUTO one                                      *)
ProviderCurrentChoices(prev) ==
    {EmptyMap} \cup
    { Put(EmptyMap, ProviderScope,
          ComputeAutoP95([i \in 1..Len(st) |-> st[i][2]],
                         IF ProviderScope \in DOMAIN prev
                         THEN Some(prev[ProviderScope]) ELSE None,
                         <<1, 2>>, TRUE)) : st \in StatsChoices }

ProviderCacheChoices ==
    { EmptyMap } \cup { Put(EmptyMap, "A", st) : st \in StatsChoices \ {<<>>} }

ProviderInit ==
    /\ pc = "provider"
    /\ tempo = MaxBlocks
    /\ last_update = 0
    /\ epoch = 0
    /\ owner_hotkey = "hk_owner"
    /\ dyn_config \in { f \in [MechScopes -> ProviderConfigs] :
                           \A sc \in MechScopes \ {ProviderScope} : f[sc] = None }
    /\ \E cs \in InitCampaignLists :
           mech_scope_to_campaign_scope = BuildMapping(cs)
    /\ prev_percentiles \in ProviderPrevChoices
    /\ current_percentiles \in ProviderCurrentChoices(prev_percentiles)
    /\ miner_stats_cache \in ProviderCacheChoices
    /\ NoLocals
    /\ result = None
    /\ advances = 0
    /\ carried = None
    /\ p95_returned = EmptyMap
    /\ p95_stable = TRUE
    /\ p95_rehit = FALSE
    /\ p95_floor = EmptyMap
    /\ sink_scores = <<>>
    /\ sink_burn = None
    /\ p95_call = None
    /\ score_in = None
    /\ campaign_call = None
    /\ stats_source = None
    /\ burn_percentage_override = None
    /\ burn_call = None
    /\ set_weights_call = None
    /\ config_source = None
    /\ campaign_fetch = None
    /\ version_call = None
    /\ caught = None

(* get_effective_p95(scope) *)
ProviderCall ==
    /\ pc = "provider"
    /\ \E fetched \in StatsChoices :
        \E R \in {GetEffectiveP95(Provider, ProviderScope,
                                   dyn_config[ProviderScope], fetched)} :
           /\ current_percentiles' = R.current
           /\ miner_stats_cache' = R.cache
           /\ p95_call' = Some([value |-> R.value,
                                 did_fetch |-> R.did_fetch,
                                 cached |-> ProviderScope \in DOMAIN current_percentiles,
                                 stats_cache |-> miner_stats_cache])
    /\ pc' = "provided"
    /\ UNCHANGED <<last_update, tempo, owner_hotkey, dyn_config,
                   mech_scope_to_campaign_scope, campaigns, campaign_weights,
                   idx, aggregated_scores, prev_percentiles, handed,
                   history_vars, sink_scores, sink_burn, score_in,
                   campaign_call, stats_source, burn_percentage_override,
                   burn_call, set_weights_call, caught, config_source,
                   campaign_fetch, version_call>>

(* update_percentiles() *)
ProviderUpdate ==
    /\ pc = "provided"
    /\ \E U \in {UpdatePercentiles(Provider)} :
          /\ prev_percentiles' = U.prev
          /\ current_percentiles' = U.current
          /\ miner_stats_cache' = U.cache
    /\ pc' = "updated"
    /\ UNCHANGED <<last_update, tempo, owner_hotkey, dyn_config,
                   mech_scope_to_campaign_scope, campaigns, campaign_weights,
                   idx, aggregated_scores, handed, history_vars, sink_vars, caught>>

ProviderNext ==
    \/ ProviderCall
    \/ ProviderUpdate

ProviderSpec == ProviderInit /\ [][ProviderNext]_vars

----------------------------------------------------------------------------
(* The score calculator called directly, as _process_weights builds it from *)
(* the scope's config: score_many for one miner's window stats              *)

MaxSales == 4
MaxRefunds == 2

ScoreRevenues == {0, 2, 8, 9}
ScoreCeilings == { <<1, 2>>, <<2, 1>>, <<8, 1>> }

(* (w_sales, w_rev) as the config storage may return them; they are passed  *)
(* to the calculator as they are                                            *)
ScoreWeights ==
    { <<DEFAULT_W_SALES, DEFAULT_W_REV>>, << <<1, 2>>, <<1, 2>> >>,
      <<One, Zero>>, << <<4, 5>>, <<3, 5>> >> }

(* (use_soft_cap, soft_cap_threshold, soft_cap_factor) *)
ScoreSoftCaps ==
    { <<DEFAULT_USE_SOFT_CAP, DEFAULT_SOFT_CAP_THRESHOLD, DEFAULT_SOFT_CAP_FACTOR>>,
      <<TRUE, DEFAULT_SOFT_CAP_THRESHOLD, DEFAULT_SOFT_CAP_FACTOR>>,
      <<TRUE, 1, Zero>> }

ScoreConfig(w, cap) ==
    [GetDefaultConfig EXCEPT !.w_sales = w[1], !.w_rev = w[2],
                             !.use_soft_cap = cap[1],
                             !.soft_cap_threshold = cap[2],
                             !.soft_cap_factor = cap[3]]

ScoreInit ==
    /\ pc = "score"
    /\ tempo = MaxBlocks
    /\ last_update = 0
    /\ epoch = 0
    /\ owner_hotkey = "hk_owner"
    /\ dyn_config = [sc \in MechScopes |-> None]
    /\ mech_scope_to_campaign_scope = EmptyMap
    /\ prev_percentiles = EmptyMap
    /\ current_percentiles = EmptyMap
    /\ miner_stats_cache = EmptyMap
    /\ NoLocals
    /\ result = None
    /\ advances = 0
    /\ carried = None
    /\ p95_returned = EmptyMap
    /\ p95_stable = TRUE
    /\ p95_rehit = FALSE
    /\ p95_floor = EmptyMap
    /\ sink_scores = <<>>
    /\ sink_burn = None
    /\ p95_call = None
    /\ campaign_call = None
    /\ stats_source = None
    /\ burn_percentage_override = None
    /\ burn_call = None
    /\ set_weights_call = None
    /\ config_source = None
    /\ campaign_fetch = None
    /\ version_call = None
    /\ caught = None
    /\ \E sales \in 0..MaxSales, revenue_usd \in ScoreRevenues,
          refund_orders \in 0..MaxRefunds,
          cs \in ScoreCeilings, cr \in ScoreCeilings,
          w \in ScoreWeights, cap \in ScoreSoftCaps :
          score_in = Some([stats |-> Stats(sales, revenue_usd, refund_orders),
                           p95 |-> Percentiles(cs, cr),
                           cfg |-> ScoreConfig(w, cap)])

(* score_many([(miner_id, stats)], scope) *)
ScoreCall ==
    /\ pc = "score"
    /\ sink_scores' = ScoreMany(<< <<"hk_m1", Val(score_in).stats>> >>,
                                Val(score_in).p95, Val(score_in).cfg)
    /\ pc' = "scored"
    /\ UNCHANGED <<last_update, tempo, owner_hotkey, dyn_config,
                   mech_scope_to_campaign_scope, campaigns, campaign_weights,
                   idx, aggregated_scores, prev_percentiles,
                   current_percentiles, miner_stats_cache, handed,
                   history_vars, sink_burn, p95_call, score_in,
                   campaign_call, stats_source, burn_percentage_override,
                   burn_call, set_weights_call, caught, config_source,
                   campaign_fetch, version_call>>

ScoreNext == ScoreCall

ScoreSpec == ScoreInit /\ [][ScoreNext]_vars

----------------------------------------------------------------------------
(* One pass of the campaign loop called directly: compute_scores_for_campaign *)
(* and the campaign's weight vector, for any stats, pending list and burn   *)

CallCampaigns == { Campaign("A", 1, None), Campaign("B", 1, None) }

(* what get_pending_miners may return; "hk_x" is not in the metagraph *)
PendingLists ==
    { <<>>, <<"hk_m2">>, <<"hk_x">>, <<"hk_m1", "hk_m1">>,
      <<"hk_x", "hk_m2", "hk_m2">>, <<"hk_owner", "hk_m1">> }

(* what the burn resolver may return for the campaign *)
CampaignBurns == { None, Some(0), Some(30), Some(100) }

CampaignInit ==
    /\ pc = "campaign"
    /\ tempo = MaxBlocks
    /\ last_update = 0
    /\ epoch = 0
    /\ owner_hotkey \in OwnerHotkeys
    /\ dyn_config \in { f \in [MechScopes -> ConfigChoices] :
                           \A sc \in MechScopes \ ChangingScopes : f[sc] = None }
    /\ \E cs \in InitCampaignLists :
           mech_scope_to_campaign_scope = BuildMapping(cs)
    /\ prev_percentiles \in ProviderPrevChoices
    /\ current_percentiles \in ProviderCurrentChoices(prev_percentiles)
    /\ miner_stats_cache = EmptyMap
    /\ NoLocals
    /\ result = None
    /\ advances = 0
    /\ carried = None
    /\ p95_returned = EmptyMap
    /\ p95_stable = TRUE
    /\ p95_rehit = FALSE
    /\ p95_floor = EmptyMap
    /\ sink_scores = <<>>
    /\ sink_burn = None
    /\ p95_call = None
    /\ score_in = None
    /\ campaign_call = None
    /\ stats_source = None
    /\ burn_percentage_override = None
    /\ burn_call = None
    /\ set_weights_call = None
    /\ config_source = None
    /\ campaign_fetch = None
    /\ version_call = None
    /\ caught = None

(* the body of the for loop of _process_weights up to campaign_weights_vec *)
CampaignCall ==
    /\ pc = "campaign"
    /\ \E campaign \in CallCampaigns, fetched \in StatsChoices,
          pending \in PendingLists, burn \in CampaignBurns, raises \in BOOLEAN :
        /\ raises => fetched # <<>>
        /\ LET mech_scope == MechScope(campaign.mech_id)
               cfg == dyn_config[mech_scope]
               cached == [Provider EXCEPT !.cache =
                             SetMinerStatsCache(miner_stats_cache,
                                                campaign.scope, fetched)]
           IN \E p95_fetched \in
                    IF fetched # <<>> /\ WouldFetch(cached, mech_scope, cfg)
                    THEN StatsChoices ELSE {<<>>} :
              \E R \in {ComputeScoresForCampaign(Provider, campaign, cfg,
                            fetched, p95_fetched, pending, raises)} :
                /\ current_percentiles' = R.current
                /\ miner_stats_cache' = R.cache
                /\ campaign_call' =
                       Some([campaign |-> campaign, fetched |-> fetched,
                             p95_fetched |-> p95_fetched,
                             before |-> current_percentiles,
                             pending |-> pending, burn |-> burn,
                             raised |-> R.raised,
                             score_results |-> R.score_results,
                             vec |-> IF R.raised THEN None
                                     ELSE Some(CampaignWeightsVec(
                                              R.score_results, burn,
                                              owner_hotkey))])
    /\ pc' = "campaign_done"
    /\ UNCHANGED <<last_update, tempo, owner_hotkey, dyn_config,
                   mech_scope_to_campaign_scope, campaigns, campaign_weights,
                   idx, aggregated_scores, prev_percentiles, handed,
                   history_vars, sink_scores, sink_burn, p95_call, score_in,
                   stats_source, burn_percentage_override, burn_call,
                   set_weights_call, caught, config_source, campaign_fetch,
                   version_call>>

CampaignNext == CampaignCall

CampaignSpec == CampaignInit /\ [][CampaignNext]_vars

----------------------------------------------------------------------------
(* One epoch of a validator started with the campaign list it processes,    *)
(* over a stats source that returns the same stats for a campaign scope     *)
(* whenever it is asked during the epoch                                    *)

ShareLists ==
    { << Campaign("C", 1, None), Campaign("A", 1, Some(50)) >>,
      << Campaign("A", 1, Some(50)), Campaign("C", 1, None) >>,
      << Campaign("A", 1, Some(50)), Campaign("C", 2, None) >>,
      << Campaign("B", 1, Some(70)), Campaign("C", 1, None),
         Campaign("A", 1, Some(30)) >>,
      << Campaign("B", 1, Some(70)), Campaign("A", 1, Some(30)) >> }

ShareStatsOne == << <<"hk_m1", Stats(1, 1, 0)>> >>
ShareStatsTwo == << <<"hk_m1", Stats(4, 8, 0)>>, <<"hk_m2", Stats(2, 4, 0)>> >>

ShareStats == { ShareStatsOne, ShareStatsTwo, StatsLow }

(* fetch_window(scope, window_days) over the stable source *)
FetchWindow(source, scope) ==
    IF scope \in DOMAIN source THEN source[scope] ELSE <<>>

ShareInit ==
    /\ pc = "loop"
    /\ tempo = MaxBlocks
    /\ last_update = MaxBlocks
    /\ epoch = 0
    /\ owner_hotkey = "hk_owner"
    /\ dyn_config = [sc \in MechScopes |-> None]
    /\ prev_percentiles = EmptyMap
    /\ current_percentiles = EmptyMap
    /\ miner_stats_cache = EmptyMap
    /\ NoLocals
    /\ result = None
    /\ advances = 0
    /\ carried = None
    /\ p95_returned = EmptyMap
    /\ p95_stable = TRUE
    /\ p95_rehit = FALSE
    /\ p95_floor = EmptyMap
    /\ sink_scores = <<>>
    /\ sink_burn = None
    /\ p95_call = None
    /\ score_in = None
    /\ campaign_call = None
    /\ burn_percentage_override = None
    /\ burn_call = None
    /\ set_weights_call = None
    /\ config_source = None
    /\ campaign_fetch = None
    /\ version_call = None
    /\ caught = None
    /\ \E cs \in ShareLists :
          /\ mech_scope_to_campaign_scope = BuildMapping(cs)
          /\ \E source \in [{cs[i].scope : i \in 1..Len(cs)} -> ShareStats] :
                stats_source = Some([campaigns |-> cs, source |-> source])

ShareBeginProcess ==
    BeginProcessOf({Val(stats_source).campaigns}, MaxEpochs)

ShareProcessCampaign ==
    ProcessCampaignFrom(
        {CampaignInput(FetchWindow(Val(stats_source).source,
                                   campaigns[idx].scope), <<>>, None)},
        {"ok"},
        {FetchWindow(Val(stats_source).source,
                     Get(mech_scope_to_campaign_scope,
                         MechScope(campaigns[idx].mech_id),
                         MechScope(campaigns[idx].mech_id)))})

ShareNext ==
    \/ ShareBeginProcess
    \/ ShareProcessCampaign
    \/ Submit

ShareSpec == ShareInit /\ [][ShareNext]_vars

----------------------------------------------------------------------------
(* The burn percentage resolver: _get_config at startup, then               *)
(* burn_percentage_resolver(scope, miner_stats_scope) called directly       *)

(* FixedBurnPercentageResolver(p)(scope) *)
FixedBurnPercentageResolver(burn_percentage) == Some(burn_percentage)

BurnData(emission_in_tao, tao_price_usd, total_sales_usd, sales_emission_ratio) ==
    [emission_in_tao |-> emission_in_tao, tao_price_usd |-> tao_price_usd,
     total_sales_usd |-> total_sales_usd,
     sales_emission_ratio |-> sales_emission_ratio]

(* BurnPercentageResolver.__call__: None without burn data; 0 when the      *)
(* emissions in USD are at most sales * ratio; otherwise the excess of the  *)
(* emissions as a percentage of the emissions                               *)
BurnPercentageResolver(burn_data) ==
    IF burn_data = None THEN None
    ELSE LET d == Val(burn_data)
             emission_in_usd == Rat(d.emission_in_tao * d.tao_price_usd, 1)
             target == RMul(Rat(d.total_sales_usd, 1), d.sales_emission_ratio)
         IN IF RLeq(emission_in_usd, target) THEN Some(Zero)
            ELSE Some(RMul(RDiv(RSub(emission_in_usd, target), emission_in_usd),
                           Rat(100, 1)))

(* a resolver that asks the scope's config before the global override *)
BurnPercentageResolverConfigFirst(override, scope_config, burn_data) ==
    IF scope_config # None /\ Val(scope_config).burn_percentage # None
    THEN FixedBurnPercentageResolver(Val(Val(scope_config).burn_percentage))
    ELSE IF override # None THEN FixedBurnPercentageResolver(Val(override))
    ELSE BurnPercentageResolver(burn_data)

(* burn_percentage_resolver(scope, miner_stats_scope): override is the CLI  *)
(* value, scope_config what get_config(scope) returns, burn_data what the   *)
(* burn data source has for the scope                                       *)
ResolveBurnPercentage(override, scope_config, burn_data) ==
    IF override # None THEN FixedBurnPercentageResolver(Val(override))
    ELSE IF scope_config # None /\ Val(scope_config).burn_percentage # None
    THEN FixedBurnPercentageResolver(Val(Val(scope_config).burn_percentage))
    ELSE BurnPercentageResolver(burn_data)

(* _get_config: the ValueError for an override outside [0, 100] *)
OverrideRejected(override) ==
    override # None
    /\ (RLt(Val(override), Zero) \/ RLt(Rat(100, 1), Val(override)))

(* --burn-percentage-override as the command line may give it *)
OverrideChoices ==
    { None, Some(Rat(-5, 1)), Some(Zero), Some(Rat(40, 1)), Some(Rat(100, 1)),
      Some(Rat(201, 2)) }

(* get_config(scope): no config, or one with or without burn_percentage *)
ScopeBurnConfigs ==
    { None, Some([burn_percentage |-> None]),
      Some([burn_percentage |-> Some(Zero)]),
      Some([burn_percentage |-> Some(Rat(25, 1))]) }

BurnDataChoices ==
    {None} \cup
    { Some(BurnData(e, 2, s, r)) : e \in {0, 10}, s \in {0, 10, 30},
                                   r \in {One, <<3, 2>>} }

ResolverInit ==
    /\ pc = "startup"
    /\ tempo = MaxBlocks
    /\ last_update = 0
    /\ epoch = 0
    /\ owner_hotkey = "hk_owner"
    /\ dyn_config = [sc \in MechScopes |-> None]
    /\ mech_scope_to_campaign_scope = EmptyMap
    /\ prev_percentiles = EmptyMap
    /\ current_percentiles = EmptyMap
    /\ miner_stats_cache = EmptyMap
    /\ NoLocals
    /\ result = None
    /\ advances = 0
    /\ carried = None
    /\ p95_returned = EmptyMap
    /\ p95_stable = TRUE
    /\ p95_rehit = FALSE
    /\ p95_floor = EmptyMap
    /\ sink_scores = <<>>
    /\ sink_burn = None
    /\ p95_call = None
    /\ score_in = None
    /\ campaign_call = None
    /\ stats_source = None
    /\ burn_percentage_override \in OverrideChoices
    /\ burn_call = None
    /\ set_weights_call = None
    /\ config_source = None
    /\ campaign_fetch = None
    /\ version_call = None
    /\ caught = None

ResolverUnchanged ==
    UNCHANGED <<last_update, tempo, owner_hotkey, dyn_config,
                mech_scope_to_campaign_scope, campaigns, campaign_weights,
                idx, aggregated_scores, prev_percentiles, current_percentiles,
                miner_stats_cache, handed, history_vars, sink_scores,
                sink_burn, p95_call, score_in, campaign_call, stats_source,
                burn_percentage_override, set_weights_call, caught,
                config_source, campaign_fetch, version_call>>

(* _get_config: the override is validated before anything is built *)
GetConfig ==
    /\ pc = "startup"
    /\ pc' = IF OverrideRejected(burn_percentage_override)
             THEN "rejected" ELSE "resolver"
    /\ UNCHANGED burn_call
    /\ ResolverUnchanged

(* burn_percentage_resolver(scope, miner_stats_scope) *)
ResolveBurn ==
    /\ pc = "resolver"
    /\ \E scope_config \in ScopeBurnConfigs, burn_data \in BurnDataChoices :
          burn_call' =
              Some([scope_config |-> scope_config, burn_data |-> burn_data,
                    value |-> ResolveBurnPercentage(burn_percentage_override,
                                                    scope_config, burn_data)])
    /\ pc' = "resolved"
    /\ ResolverUnchanged

ResolverNext ==
    \/ GetConfig
    \/ ResolveBurn

ResolverSpec == ResolverInit /\ [][ResolverNext]_vars

----------------------------------------------------------------------------
(* _set_weights called directly, with any max_retries up to the default *)

RetryInit ==
    /\ pc = "set_weights_direct"
    /\ tempo = MaxBlocks
    /\ last_update = 0
    /\ epoch = 0
    /\ owner_hotkey = "hk_owner"
    /\ dyn_config = [sc \in MechScopes |-> None]
    /\ mech_scope_to_campaign_scope = EmptyMap
    /\ prev_percentiles = EmptyMap
    /\ current_percentiles = EmptyMap
    /\ miner_stats_cache = EmptyMap
    /\ NoLocals
    /\ result = None
    /\ advances = 0
    /\ carried = None
    /\ p95_returned = EmptyMap
    /\ p95_stable = TRUE
    /\ p95_rehit = FALSE
    /\ p95_floor = EmptyMap
    /\ sink_scores = <<>>
    /\ sink_burn = None
    /\ p95_call = None
    /\ score_in = None
    /\ campaign_call = None
    /\ stats_source = None
    /\ burn_percentage_override = None
    /\ burn_call = None
    /\ set_weights_call = None
    /\ config_source = None
    /\ campaign_fetch = None
    /\ version_call = None
    /\ caught = None

(* _set_weights(..., max_retries=limit) *)
RetryCall ==
    /\ pc = "set_weights_direct"
    /\ \E limit \in 0..max_retries, registered \in BOOLEAN,
          outcomes \in AttemptOutcomes :
        \E r \in {SetWeightsWith(limit, registered, outcomes)} :
           /\ set_weights_call' =
                  Some([max_retries |-> limit, registered |-> registered,
                        outcomes |-> outcomes, attempts |-> r.attempts,
                        success |-> r.success, raised |-> r.raised,
                        message |-> r.message])
           /\ attempts' = attempts + r.attempts
    /\ pc' = "set_weights_done"
    /\ UNCHANGED <<last_update, tempo, owner_hotkey, dyn_config,
                   mech_scope_to_campaign_scope, campaigns, campaign_weights,
                   idx, aggregated_scores, prev_percentiles,
                   current_percentiles, miner_stats_cache, handed, epoch,
                   calls, result, advances, failed, scored, idle, vectors,
                   contrib_sum, p95_returned, p95_stable, p95_rehit, p95_floor,
                   at_submit, carried, sink_scores, sink_burn, p95_call,
                   score_in, campaign_call, stats_source,
                   burn_percentage_override, burn_call, caught,
                   config_source, campaign_fetch, version_call>>

RetryNext == RetryCall

RetrySpec == RetryInit /\ [][RetryNext]_vars

----------------------------------------------------------------------------
(* The dynamic config sources and their cache                               *)

MaxClock == 4

ConfigScopes == {"mech1", "mech2"}
ConfigData == {"cfg1", "cfg2"}
CacheTtls == {1, 2}

(* what requests.get / raise_for_status / response.json() do to one request *)
ConfigResponses ==
    { [kind |-> "ok", data |-> d] : d \in ConfigData }
        \cup { [kind |-> k, data |-> "none"] :
                   k \in {"request_error", "parse_error"} }

(* ValidatorDynamicConfigSource keeps one cache entry per scope,            *)
(* StorageDynamicConfigSource one entry for the subnet                      *)
CacheKey(per_scope, scope) == IF per_scope THEN scope ELSE "subnet"

(* a source that keeps an expired entry and falls back on it *)
FetchConfigRawStale(cache, cache_ttl, key, has_url, current_time, response) ==
    IF key \in DOMAIN cache /\ current_time - cache[key][2] < cache_ttl
    THEN [cache |-> cache, returned |-> Some(cache[key][1]),
          requested |-> FALSE]
    ELSE IF has_url /\ response.kind = "ok"
    THEN [cache |-> Put(cache, key, <<response.data, current_time>>),
          returned |-> Some(response.data), requested |-> TRUE]
    ELSE [cache |-> cache,
          returned |-> IF key \in DOMAIN cache THEN Some(cache[key][1])
                       ELSE None,
          requested |-> has_url]

(* _fetch_config_raw: a cache entry younger than cache_ttl is returned; an  *)
(* older one is removed; then (with a base URL) one request, whose data is  *)
(* stored with the call's time only when the request and the parse succeed  *)
FetchConfigRaw(cache, cache_ttl, key, has_url, current_time, response) ==
    LET hit == key \in DOMAIN cache
                 /\ current_time - cache[key][2] < cache_ttl
        kept == IF key \in DOMAIN cache /\ ~hit THEN Del(cache, key)
                ELSE cache
    IN IF hit
       THEN [cache |-> cache, returned |-> Some(cache[key][1]),
             requested |-> FALSE]
       ELSE IF ~has_url
       THEN [cache |-> kept, returned |-> None, requested |-> FALSE]
       ELSE IF response.kind = "ok"
       THEN [cache |-> Put(kept, key, <<response.data, current_time>>),
             returned |-> Some(response.data), requested |-> TRUE]
       ELSE [cache |-> kept, returned |-> None, requested |-> TRUE]

ConfigInit ==
    /\ pc = "config"
    /\ tempo = MaxBlocks
    /\ last_update = 0
    /\ epoch = 0
    /\ owner_hotkey = "hk_owner"
    /\ dyn_config = [sc \in MechScopes |-> None]
    /\ mech_scope_to_campaign_scope = EmptyMap
    /\ prev_percentiles = EmptyMap
    /\ current_percentiles = EmptyMap
    /\ miner_stats_cache = EmptyMap
    /\ NoLocals
    /\ result = None
    /\ advances = 0
    /\ carried = None
    /\ p95_returned = EmptyMap
    /\ p95_stable = TRUE
    /\ p95_rehit = FALSE
    /\ p95_floor = EmptyMap
    /\ caught = None
    /\ sink_scores = <<>>
    /\ sink_burn = None
    /\ p95_call = None
    /\ score_in = None
    /\ campaign_call = None
    /\ stats_source = None
    /\ burn_percentage_override = None
    /\ burn_call = None
    /\ set_weights_call = None
    /\ \E per_scope \in BOOLEAN, has_url \in BOOLEAN, ttl \in CacheTtls :
          /\ per_scope => has_url
          /\ config_source =
                 Some([per_scope |-> per_scope, has_url |-> has_url,
                       cache_ttl |-> ttl, cache |-> EmptyMap, now |-> 0,
                       fetched |-> EmptyMap, call |-> None])
    /\ campaign_fetch = None
    /\ version_call = None

(* time passes between two calls *)
ConfigTick ==
    /\ pc = "config"
    /\ Val(config_source).now < MaxClock
    /\ config_source' =
           Some([Val(config_source) EXCEPT !.now = @ + 1])
    /\ UNCHANGED pc
    /\ UNCHANGED <<last_update, tempo, owner_hotkey, dyn_config,
                   mech_scope_to_campaign_scope, campaigns,
                   campaign_weights, idx, aggregated_scores,
                   prev_percentiles, current_percentiles,
                   miner_stats_cache, handed, history_vars, caught,
                   sink_scores, sink_burn, p95_call, score_in,
                   campaign_call, stats_source, burn_percentage_override,
                   burn_call, set_weights_call, campaign_fetch,
                   version_call>>

(* get_config(scope) -> _fetch_config_raw; fetched is history: per cache    *)
(* key the data and time of the latest successful request                   *)
ConfigCall ==
    /\ pc = "config"
    /\ \E s \in {Val(config_source)}, scope \in ConfigScopes,
          response \in ConfigResponses :
        \E key \in {CacheKey(s.per_scope, scope)} :
        \E r \in {FetchConfigRaw(s.cache, s.cache_ttl, key, s.has_url,
                                 s.now, response)} :
           config_source' =
               Some([per_scope |-> s.per_scope, has_url |-> s.has_url,
                     cache_ttl |-> s.cache_ttl, cache |-> r.cache,
                     now |-> s.now,
                     fetched |-> IF r.requested /\ response.kind = "ok"
                                 THEN Put(s.fetched, key,
                                          <<response.data, s.now>>)
                                 ELSE s.fetched,
                     call |-> Some([key |-> key, time |-> s.now,
                                    response |-> response,
                                    returned |-> r.returned,
                                    requested |-> r.requested,
                                    known |-> s.fetched])])
    /\ UNCHANGED pc
    /\ UNCHANGED <<last_update, tempo, owner_hotkey, dyn_config,
                   mech_scope_to_campaign_scope, campaigns,
                   campaign_weights, idx, aggregated_scores,
                   prev_percentiles, current_percentiles,
                   miner_stats_cache, handed, history_vars, caught,
                   sink_scores, sink_burn, p95_call, score_in,
                   campaign_call, stats_source, burn_percentage_override,
                   burn_call, set_weights_call, campaign_fetch,
                   version_call>>

ConfigNext ==
    \/ ConfigTick
    \/ ConfigCall

ConfigSpec == ConfigInit /\ [][ConfigNext]_vars

----------------------------------------------------------------------------
(* StorageCampaignSource.get_campaigns called directly                      *)

MaxEntries == 3

(* an element of the "campaigns" array: a JSON object with or without       *)
(* campaign_id and status, or something that is not an object               *)
SourceObject(campaign_id, status) ==
    [shape |-> "object", campaign_id |-> campaign_id, status |-> status]

SourceEntries ==
    { SourceObject(Some("A"), <<"missing">>),
      SourceObject(Some("A"), <<"int", 0>>),
      SourceObject(Some("B"), <<"int", 1>>),
      SourceObject(None, <<"int", 1>>),
      [shape |-> "string", campaign_id |-> None, status |-> <<"missing">>] }

SourceLists ==
    UNION { [1..n -> SourceEntries] : n \in 0..MaxEntries }

(* what the request gives: a failure of requests.get / raise_for_status, a  *)
(* body that is not JSON, a JSON array, an object whose "campaigns" is      *)
(* null, or an object with a "campaigns" array                              *)
SourceResponses ==
    { [kind |-> k, entries |-> <<>>] :
          k \in {"request_error", "not_json", "top_level_array",
                 "campaigns_null"} }
        \cup { [kind |-> "ok", entries |-> l] : l \in SourceLists }

(* campaign_data.get("status", 1) == 1 *)
StatusActive(status) ==
    IF status = <<"missing">> THEN TRUE
    ELSE status[1] = "int" /\ status[2] = 1

(* a filter that takes every entry with a campaign_id *)
ActiveCampaignsAnyStatus(entries) ==
    LET keep == SelectSeq(entries, LAMBDA e : e.campaign_id # None)
    IN [i \in 1..Len(keep) |-> Campaign(Val(keep[i].campaign_id), 1, None)]

(* the for loop over campaigns_data, every element being an object *)
ActiveCampaigns(entries) ==
    LET keep == SelectSeq(entries,
                          LAMBDA e : e.campaign_id # None
                                       /\ StatusActive(e.status))
    IN [i \in 1..Len(keep) |-> Campaign(Val(keep[i].campaign_id), 1, None)]

(* get_campaigns: [] without a base URL, on RequestException and on         *)
(* ValueError / KeyError / TypeError; `.get` on something that is not a     *)
(* dict raises AttributeError, which no except clause names                 *)
GetCampaigns(has_url, response) ==
    IF ~has_url THEN [raised |-> "none", campaigns |-> <<>>]
    ELSE IF response.kind \in {"request_error", "not_json", "campaigns_null"}
    THEN [raised |-> "none", campaigns |-> <<>>]
    ELSE IF response.kind = "top_level_array"
    THEN [raised |-> "AttributeError", campaigns |-> <<>>]
    ELSE IF \E i \in 1..Len(response.entries) :
                response.entries[i].shape # "object"
    THEN [raised |-> "AttributeError", campaigns |-> <<>>]
    ELSE [raised |-> "none", campaigns |-> ActiveCampaigns(response.entries)]

(* _process_weights with that list: `if not campaigns` submits the          *)
(* owner-only vector and returns                                            *)
ProcessWeightsBranch(fetched) ==
    IF fetched.raised # "none" THEN "raised"
    ELSE IF fetched.campaigns = <<>> THEN "owner_only"
    ELSE "campaign_loop"

SourceInit ==
    /\ pc = "campaign_source"
    /\ tempo = MaxBlocks
    /\ last_update = 0
    /\ epoch = 0
    /\ owner_hotkey = "hk_owner"
    /\ dyn_config = [sc \in MechScopes |-> None]
    /\ mech_scope_to_campaign_scope = EmptyMap
    /\ prev_percentiles = EmptyMap
    /\ current_percentiles = EmptyMap
    /\ miner_stats_cache = EmptyMap
    /\ NoLocals
    /\ result = None
    /\ advances = 0
    /\ carried = None
    /\ p95_returned = EmptyMap
    /\ p95_stable = TRUE
    /\ p95_rehit = FALSE
    /\ p95_floor = EmptyMap
    /\ caught = None
    /\ sink_scores = <<>>
    /\ sink_burn = None
    /\ p95_call = None
    /\ score_in = None
    /\ campaign_call = None
    /\ stats_source = None
    /\ burn_percentage_override = None
    /\ burn_call = None
    /\ set_weights_call = None
    /\ config_source = None
    /\ campaign_fetch = None
    /\ version_call = None

SourceCall ==
    /\ pc = "campaign_source"
    /\ \E has_url \in BOOLEAN, response \in SourceResponses :
        \E r \in {GetCampaigns(has_url, response)} :
           campaign_fetch' =
               Some([has_url |-> has_url, response |-> response,
                     raised |-> r.raised, campaigns |-> r.campaigns,
                     branch |-> ProcessWeightsBranch(r),
                     handed |-> IF ProcessWeightsBranch(r) = "owner_only"
                                THEN OwnerOnlyCall(owner_hotkey)
                                ELSE <<>>])
    /\ pc' = "campaign_source_done"
    /\ UNCHANGED <<last_update, tempo, owner_hotkey, dyn_config,
                   mech_scope_to_campaign_scope, campaigns,
                   campaign_weights, idx, aggregated_scores,
                   prev_percentiles, current_percentiles,
                   miner_stats_cache, handed, history_vars, caught,
                   sink_scores, sink_burn, p95_call, score_in,
                   campaign_call, stats_source, burn_percentage_override,
                   burn_call, set_weights_call, config_source,
                   version_call>>

SourceNext == SourceCall

SourceSpec == SourceInit /\ [][SourceNext]_vars

----------------------------------------------------------------------------
(* One epoch with a burn percentage per campaign: what the resolver returns *)
(* for a campaign is fixed for the epoch, and the final publish resolves    *)
(* the primary campaign's                                                   *)

BurnLists ==
    { << Campaign("A", 1, None) >>,
      << Campaign("A", 1, None), Campaign("B", 1, None) >>,
      << Campaign("B", 1, Some(70)), Campaign("A", 1, Some(30)) >>,
      << Campaign("A", 1, Some(50)), Campaign("C", 2, None) >> }

BurnStatsOwner ==
    << <<"hk_owner", Stats(4, 8, 0)>>, <<"hk_m1", Stats(2, 4, 0)>> >>

BurnStats == { <<>>, ShareStatsTwo, BurnStatsOwner }

BurnValues == { None, Some(20), Some(50), Some(100) }

BurnInit ==
    /\ pc = "loop"
    /\ tempo = MaxBlocks
    /\ last_update = MaxBlocks
    /\ epoch = 0
    /\ owner_hotkey \in OwnerHotkeys
    /\ dyn_config = [sc \in MechScopes |-> None]
    /\ prev_percentiles = EmptyMap
    /\ current_percentiles = EmptyMap
    /\ miner_stats_cache = EmptyMap
    /\ NoLocals
    /\ result = None
    /\ advances = 0
    /\ carried = None
    /\ p95_returned = EmptyMap
    /\ p95_stable = TRUE
    /\ p95_rehit = FALSE
    /\ p95_floor = EmptyMap
    /\ caught = None
    /\ sink_scores = <<>>
    /\ sink_burn = None
    /\ p95_call = None
    /\ score_in = None
    /\ campaign_call = None
    /\ \E cs \in BurnLists :
          /\ mech_scope_to_campaign_scope = BuildMapping(cs)
          /\ \E source \in [{cs[i].scope : i \in 1..Len(cs)} -> BurnStats],
                burns \in [{cs[i].scope : i \in 1..Len(cs)} -> BurnValues] :
                stats_source = Some([campaigns |-> cs, source |-> source,
                                     burns |-> burns])
    /\ burn_percentage_override = None
    /\ burn_call = None
    /\ set_weights_call = None
    /\ config_source = None
    /\ campaign_fetch = None
    /\ version_call = None

BurnBeginProcess ==
    BeginProcessOf({Val(stats_source).campaigns}, MaxEpochs)

(* burn_percentage_resolver(mech_scope, miner_stats_scope=campaign.scope) *)
BurnProcessCampaign ==
    ProcessCampaignFrom(
        {CampaignInput(FetchWindow(Val(stats_source).source,
                                   campaigns[idx].scope), <<>>,
                       Val(stats_source).burns[campaigns[idx].scope])},
        {"ok"},
        {FetchWindow(Val(stats_source).source,
                     Get(mech_scope_to_campaign_scope,
                         MechScope(campaigns[idx].mech_id),
                         MechScope(campaigns[idx].mech_id)))})

(* publish(aggregated_results, primary_mech_scope,                          *)
(*         miner_stats_scope=primary_campaign.scope, apply_burn=False)      *)
BurnSubmit ==
    SubmitWith({Val(stats_source).burns[campaigns[1].scope]})

BurnNext ==
    \/ BurnBeginProcess
    \/ BurnProcessCampaign
    \/ BurnSubmit

BurnSpec == BurnInit /\ [][BurnNext]_vars

----------------------------------------------------------------------------
(* core._version_to_int called directly. A string is the sequence of its    *)
(* characters; a version is given by its segments between the dots          *)

MaxSegments == 3

DigitChars == <<"0", "1", "2", "3", "4", "5", "6", "7", "8", "9">>

IsDigit(c) == \E d \in 1..10 : DigitChars[d] = c

DigitValue(c) == (CHOOSE d \in 1..10 : DigitChars[d] = c) - 1

RECURSIVE DigitsValue(_)
DigitsValue(s) ==
    IF s = <<>> THEN 0
    ELSE DigitsValue(SubSeq(s, 1, Len(s) - 1)) * 10 + DigitValue(s[Len(s)])

AllDigits(s) == s # <<>> /\ \A i \in 1..Len(s) : IsDigit(s[i])

(* int(s) for a string of digits with an optional minus sign; None stands   *)
(* for ValueError                                                           *)
ParseInt(s) ==
    IF AllDigits(s) THEN Some(DigitsValue(s))
    ELSE IF s # <<>> /\ s[1] = "-" /\ AllDigits(Tail(s))
    THEN Some(-DigitsValue(Tail(s)))
    ELSE None

RECURSIVE StrNat(_)
StrNat(n) ==
    IF n < 10 THEN <<DigitChars[n + 1]>>
    ELSE StrNat(n \div 10) \o <<DigitChars[(n % 10) + 1]>>

(* str(n) *)
StrInt(n) == IF n < 0 THEN <<"-">> \o StrNat(-n) ELSE StrNat(n)

(* a loop that pops nothing *)
DropLeadingZerosNone(parts) == parts

(* while parts and parts[0] == 0: parts.pop(0) *)
RECURSIVE DropLeadingZeros(_)
DropLeadingZeros(parts) ==
    IF parts # <<>> /\ parts[1] = 0 THEN DropLeadingZeros(Tail(parts))
    ELSE parts

(* ''.join(str(part) for part in parts) *)
RECURSIVE JoinParts(_)
JoinParts(parts) ==
    IF parts = <<>> THEN <<>>
    ELSE StrInt(parts[1]) \o JoinParts(Tail(parts))

(* _version_to_int; a version that is not a string has no split            *)
(* (AttributeError), a segment that int() rejects raises ValueError, and so *)
(* does a joined string with a minus sign inside: all three return 1        *)
VersionToInt(version) ==
    IF version.kind # "str" THEN 1
    ELSE IF \E i \in 1..Len(version.segments) :
                ParseInt(version.segments[i]) = None
    THEN 1
    ELSE LET parts == DropLeadingZeros(
                          [i \in 1..Len(version.segments) |->
                              Val(ParseInt(version.segments[i]))])
         IN IF parts = <<>> THEN 1
            ELSE IF ParseInt(JoinParts(parts)) = None THEN 1
            ELSE Val(ParseInt(JoinParts(parts)))

(* __version__ = '0.0.1' *)
PackageVersion == [kind |-> "str", segments |-> << <<"0">>, <<"0">>, <<"1">> >>]

(* version_as_int, the version_key _set_weights uses when it is given none *)
version_as_int == VersionToInt(PackageVersion)

VersionSegments ==
    { <<"0">>, <<"1">>, <<"2">>, <<"3">>, <<"5">>, <<"1", "0">>, <<"0", "2">>,
      <<"-", "1">>, <<"x">>, <<>> }

(* split('.') gives at least one segment *)
VersionInputs ==
    { [kind |-> "str", segments |-> s] :
          s \in UNION { [1..n -> VersionSegments] : n \in 1..MaxSegments } }
        \cup { [kind |-> "none", segments |-> <<>>] }

VersionInit ==
    /\ pc = "version"
    /\ tempo = MaxBlocks
    /\ last_update = 0
    /\ epoch = 0
    /\ owner_hotkey = "hk_owner"
    /\ dyn_config = [sc \in MechScopes |-> None]
    /\ mech_scope_to_campaign_scope = EmptyMap
    /\ prev_percentiles = EmptyMap
    /\ current_percentiles = EmptyMap
    /\ miner_stats_cache = EmptyMap
    /\ NoLocals
    /\ result = None
    /\ advances = 0
    /\ carried = None
    /\ p95_returned = EmptyMap
    /\ p95_stable = TRUE
    /\ p95_rehit = FALSE
    /\ p95_floor = EmptyMap
    /\ caught = None
    /\ sink_scores = <<>>
    /\ sink_burn = None
    /\ p95_call = None
    /\ score_in = None
    /\ campaign_call = None
    /\ stats_source = None
    /\ burn_percentage_override = None
    /\ burn_call = None
    /\ set_weights_call = None
    /\ config_source = None
    /\ campaign_fetch = None
    /\ version_call = None

VersionCall ==
    /\ pc = "version"
    /\ \E version \in VersionInputs :
          version_call' = Some([version |-> version,
                                value |-> VersionToInt(version),
                                version_key |-> version_as_int])
    /\ pc' = "version_done"
    /\ UNCHANGED <<last_update, tempo, owner_hotkey, dyn_config,
                   mech_scope_to_campaign_scope, campaigns,
                   campaign_weights, idx, aggregated_scores,
                   prev_percentiles, current_percentiles,
                   miner_stats_cache, handed, history_vars, caught,
                   sink_scores, sink_burn, p95_call, score_in,
                   campaign_call, stats_source, burn_percentage_override,
                   burn_call, set_weights_call, config_source,
                   campaign_fetch>>

VersionNext == VersionCall

VersionSpec == VersionInit /\ [][VersionNext]_vars

----------------------------------------------------------------------------
(* Properties *)

(* C1: in every processed epoch update_percentiles() has run exactly once   *)
(* when the epoch is over, however it ended: once _process_weights has been *)
(* left and the loop is back at its top (or the validator has ended), the   *)
(* epoch counts one update.                                                 *)
C1_UpdateOncePerEpoch ==
    (epoch > 0 /\ pc \in {"loop", "crashed"}) => advances = 1

(* C2: every vector handed to _set_weights has only non-negative entries    *)
(* and sums to 1.                                                           *)
C2_HandedVectorNormalized ==
    \A k \in 1..Len(handed) :
        NonNegative(handed[k]) /\ SumVec(handed[k]) = One

(* the aggregate of a finished campaign loop, as the vector to submit *)
C3_Proportional(v) ==
    \A i \in 1..NumUids :
        v[i] = RDiv(aggregated_scores[i], SumVec(aggregated_scores))

C3_VectorOutcome ==
    pc = "set_weights" =>
        /\ Len(handed) = 1
        /\ SumVec(handed[1]) = One
        /\ NonNegative(handed[1])
        /\ IF RLt(Zero, SumVec(aggregated_scores))
           THEN C3_Proportional(handed[1])
           ELSE /\ GetOwnerIndex(owner_hotkey) # None
                /\ handed[1] = [i \in 1..NumUids |->
                                   IF i = Val(GetOwnerIndex(owner_hotkey))
                                   THEN One ELSE Zero]

C4_AtMostOnceNoRetry ==
    calls <= 1 /\ attempts <= 1

(* C4: one epoch makes at most one call of _set_weights; that call makes at *)
(* most max_retries attempts, and a successful epoch at least one.          *)
C4_OneCallBoundedRetries ==
    /\ calls <= 1
    /\ Len(handed) <= 1
    /\ attempts <= max_retries
    /\ (result # None /\ Val(result).success) => (calls = 1 /\ attempts >= 1)

C4_Witness ==
    /\ pc = "advance"
    /\ calls = 1
    /\ attempts = 3
    /\ result # None
    /\ Val(result).success

(* C5: between two update_percentiles() every call of get_effective_p95 for *)
(* a scope returns what the first call returned, and every call but the     *)
(* first computes nothing and fetches nothing.                              *)
C5_P95Idempotent ==
    /\ p95_stable
    /\ \A sc \in DOMAIN p95_returned :
           /\ sc \in DOMAIN current_percentiles
           /\ current_percentiles[sc] = p95_returned[sc]

C5_Witness ==
    /\ p95_rehit
    /\ p95_returned # EmptyMap

(* C6: after update_percentiles() prev_percentiles is exactly what          *)
(* current_percentiles was before the call, and current_percentiles and the *)
(* miner stats cache are empty.                                             *)
C6_UpdateMovesCurrent ==
    (pc = "loop" /\ carried # None) =>
        /\ prev_percentiles = Val(carried)
        /\ DOMAIN prev_percentiles = DOMAIN Val(carried)
        /\ current_percentiles = EmptyMap
        /\ miner_stats_cache = EmptyMap

C6_Witness ==
    /\ pc = "loop"
    /\ carried # None
    /\ epoch >= 2
    /\ prev_percentiles = EmptyMap
    /\ p95_floor # EmptyMap

(* C7: while flooring stays enabled for a scope in AUTO mode, the           *)
(* thresholds of the scope are component-wise at least every value returned *)
(* for it before.                                                           *)
C7_ThresholdsNeverDecrease ==
    \A sc \in DOMAIN p95_floor \cap DOMAIN current_percentiles :
        /\ RLeq(p95_floor[sc].p95_sales, current_percentiles[sc].p95_sales)
        /\ RLeq(p95_floor[sc].p95_revenue_usd,
                current_percentiles[sc].p95_revenue_usd)

(* C8: a campaign that raised adds nothing to the aggregate, which is the   *)
(* sum of share * vector over the campaigns that were scored; when the      *)
(* submission step is reached every campaign of the list was scored or has  *)
(* failed.                                                                  *)
C8_FailureIsolated ==
    /\ pc = "campaigns" =>
           /\ aggregated_scores = contrib_sum
           /\ failed \cap scored = {}
           /\ failed \cup scored = 1..(idx - 1)
    /\ (at_submit # None /\ campaigns # <<>>) =>
           /\ aggregated_scores = contrib_sum
           /\ failed \cup scored = 1..Len(campaigns)

C8_Witness ==
    /\ pc = "set_weights"
    /\ failed # {}
    /\ scored # {}
    /\ RLt(Zero, SumVec(aggregated_scores))

(* C9: a submission that returns changes nothing the provider carries,      *)
(* whether it succeeded or not, and update_percentiles() then runs: the     *)
(* prev_percentiles of the next epoch are the current_percentiles the       *)
(* epoch ended with.                                                        *)
C9_CarriedStateIgnoresResult ==
    /\ pc = "advance" =>
           /\ at_submit # None
           /\ result # None
           /\ prev_percentiles = Val(at_submit).prev
           /\ current_percentiles = Val(at_submit).current
           /\ miner_stats_cache = Val(at_submit).cache
    /\ (pc = "loop" /\ epoch > 0 /\ (result = None \/ ~Val(result).raised)) =>
           /\ advances = 1
           /\ carried # None
           /\ prev_percentiles = Val(carried)

C9_Witness ==
    /\ pc = "advance"
    /\ calls = 1
    /\ result = Some([success |-> FALSE, raised |-> FALSE])
    /\ current_percentiles # EmptyMap
    /\ current_percentiles # prev_percentiles

(* C10: a vector is handed to _set_weights only when every campaign of the  *)
(* list has been scored or has failed; an epoch interrupted in its campaign *)
(* loop has submitted nothing.                                              *)
C10_NoEarlySubmission ==
    /\ (calls > 0 /\ campaigns # <<>>) =>
           (idx > Len(campaigns) /\ failed \cup scored = 1..Len(campaigns))
    /\ pc = "stopped" => (calls = 0 /\ handed = <<>> /\ attempts = 0)

C10_Witness ==
    /\ pc = "stopped"
    /\ idx > 1
    /\ idx <= Len(campaigns)
    /\ calls = 0
    /\ RLt(Zero, SumVec(aggregated_scores))

(* C11: when a campaign of the list declares an emission split, the shares *)
(* of the declaring campaigns are in the ratio of their splits and sum to 1 *)
(* and every other campaign has share 0; when none declares one, each of    *)
(* the N campaigns has share 1/N.                                           *)
C11_EmissionShares ==
    campaigns # <<>> =>
        LET n == Len(campaigns)
            declaring == { i \in 1..n :
                             /\ campaigns[i].emission_split # None
                             /\ Val(campaigns[i].emission_split) > 0 }
        IN /\ Len(campaign_weights) = n
           /\ SumVec(campaign_weights) = One
           /\ IF declaring # {}
              THEN /\ \A i \in (1..n) \ declaring : campaign_weights[i] = Zero
                   /\ \A i, j \in declaring :
                          RMul(campaign_weights[i],
                               Rat(Val(campaigns[j].emission_split), 1))
                          = RMul(campaign_weights[j],
                                 Rat(Val(campaigns[i].emission_split), 1))
              ELSE \A i \in 1..n : campaign_weights[i] = Rat(1, n)

C11_Witness ==
    /\ pc = "campaigns"
    /\ Len(campaigns) = 2
    /\ campaigns[1].emission_split = Some(50)
    /\ campaigns[2].emission_split = None
    /\ campaign_weights = <<One, Zero>>

(* sum over the first k campaigns of share * vector at miner index i *)
RECURSIVE C12_WeightedSum(_, _)
C12_WeightedSum(i, k) ==
    IF k = 0 THEN Zero
    ELSE RAdd(C12_WeightedSum(i, k - 1),
              RMul(campaign_weights[k], vectors[k][i]))

C13_NonOwnerIndices ==
    { i \in 1..NumUids : GetOwnerIndex(owner_hotkey) # Some(i) }

(* the vector v splits the mass m over the non-owner positions in           *)
(* proportion to the scores s                                               *)
C13_SharedInProportion(v, s, m) ==
    LET pool == SumVec([i \in 1..NumUids |->
                          IF i \in C13_NonOwnerIndices THEN s[i] ELSE Zero])
    IN \A i \in C13_NonOwnerIndices : RMul(v[i], pool) = RMul(m, s[i])

(* C13: burn invariant. For a resolved burn percentage in (0,100], a        *)
(* resolvable owner and at least one positive score of a miner other than   *)
(* the owner, the vector publish hands to _set_weights sums to 1, the       *)
(* owner's weight is burn/100 and the other miners share 1 - burn/100 in    *)
(* proportion to their scores (all 0 at 100).                               *)
C13_BurnInvariant ==
    (/\ pc = "published"
     /\ sink_burn # None /\ Val(sink_burn) > 0 /\ Val(sink_burn) <= 100
     /\ GetOwnerIndex(owner_hotkey) # None
     /\ \E i \in C13_NonOwnerIndices : RLt(Zero, MinerScores(sink_scores)[i])) =>
            LET b == Rat(Val(sink_burn), 100)
                o == Val(GetOwnerIndex(owner_hotkey))
            IN /\ Len(handed) = 1
               /\ Len(handed[1]) = NumUids
               /\ SumVec(handed[1]) = One
               /\ handed[1][o] = b
               /\ C13_SharedInProportion(handed[1], MinerScores(sink_scores),
                                     RSub(One, b))
               /\ Val(sink_burn) = 100 =>
                      \A i \in C13_NonOwnerIndices : handed[1][i] = Zero

C13_Witness ==
    /\ pc = "published"
    /\ sink_burn = Some(30)
    /\ owner_hotkey = "hk_owner"
    /\ MinerScores(sink_scores) = << <<1, 2>>, <<3, 10>>, Zero >>
    /\ handed = << << <<7, 16>>, <<21, 80>>, <<3, 10>> >> >>

(* C14: when the owner itself has a positive score and burn is applied (a   *)
(* percentage in (0,100], another miner with a positive score), the owner's *)
(* weight is burn/100 whatever its score, and the rest is split among the   *)
(* other miners in proportion to their scores only: with scores 1/2, 3/10   *)
(* and 1/5 for the owner at 30% the vector is 7/16, 21/80, 3/10.            *)
C14_OwnerScoreExcluded ==
    (/\ pc = "published"
     /\ sink_burn # None /\ Val(sink_burn) > 0 /\ Val(sink_burn) <= 100
     /\ GetOwnerIndex(owner_hotkey) # None
     /\ RLt(Zero, MinerScores(sink_scores)[Val(GetOwnerIndex(owner_hotkey))])
     /\ \E i \in C13_NonOwnerIndices : RLt(Zero, MinerScores(sink_scores)[i])) =>
            LET b == Rat(Val(sink_burn), 100)
                o == Val(GetOwnerIndex(owner_hotkey))
                s == MinerScores(sink_scores)
                others == SumVec([i \in 1..NumUids |->
                                    IF i = o THEN Zero ELSE s[i]])
            IN /\ Len(handed) = 1
               /\ handed[1][o] = b
               /\ \A i \in C13_NonOwnerIndices :
                      handed[1][i] = RMul(RSub(One, b), RDiv(s[i], others))
               /\ (s = << <<1, 2>>, <<3, 10>>, <<1, 5>> >> /\ Val(sink_burn) = 30) =>
                      handed[1] = << <<7, 16>>, <<21, 80>>, <<3, 10>> >>

C14_Witness ==
    /\ pc = "published"
    /\ sink_burn = Some(30)
    /\ owner_hotkey = "hk_owner"
    /\ MinerScores(sink_scores) = << <<1, 2>>, <<3, 10>>, <<1, 5>> >>
    /\ handed = << << <<7, 16>>, <<21, 80>>, <<3, 10>> >> >>

(* C15: when no burn percentage is resolved (no resolver, or it returns     *)
(* None) or the percentage is 0 or negative, and the scores of the          *)
(* metagraph's miners have a positive total, publish hands score / total    *)
(* at every position; the owner's weight is its own score over the total,   *)
(* 0 when it has no score.                                                  *)
C15_NoBurnNoRedistribution ==
    (/\ pc = "published"
     /\ sink_burn = None \/ Val(sink_burn) <= 0
     /\ RLt(Zero, SumVec(MinerScores(sink_scores)))) =>
        LET scores == MinerScores(sink_scores)
            total == SumVec(scores)
        IN /\ Len(handed) = 1
           /\ \A i \in 1..NumUids : handed[1][i] = RDiv(scores[i], total)
           /\ \A i \in 1..NumUids : scores[i] = Zero => handed[1][i] = Zero

C15_Witness ==
    /\ pc = "published"
    /\ sink_burn = Some(0)
    /\ owner_hotkey = "hk_owner"
    /\ MinerScores(sink_scores) = << <<1, 2>>, <<3, 10>>, <<1, 5>> >>
    /\ handed = << << <<1, 2>>, <<3, 10>>, <<1, 5>> >> >>

(* C16: when a positive burn percentage is resolved but the owner's hotkey  *)
(* is not in the metagraph, publish still reaches _set_weights, and with    *)
(* the plain normalisation of the scores: score / total at every position,  *)
(* 0 where there is no score (the burn is skipped).                         *)
C16_UnresolvedOwnerSkipsBurn ==
    (/\ pc = "published"
     /\ sink_burn # None /\ Val(sink_burn) > 0
     /\ ~InMetagraph(owner_hotkey)
     /\ RLt(Zero, SumVec(MinerScores(sink_scores)))) =>
        /\ Len(handed) = 1
        /\ handed[1] = Normalized(MinerScores(sink_scores))
        /\ handed[1] = WeightsBeforeBurn(MinerScores(sink_scores), owner_hotkey)
        /\ handed[1][HotkeyIndex("hk_owner")]
               = RDiv(MinerScores(sink_scores)[HotkeyIndex("hk_owner")],
                      SumVec(MinerScores(sink_scores)))

C16_Witness ==
    /\ pc = "published"
    /\ sink_burn = Some(30)
    /\ owner_hotkey = "hk_gone"
    /\ MinerScores(sink_scores) = << <<1, 2>>, <<1, 2>>, Zero >>
    /\ handed = << << <<1, 2>>, <<1, 2>>, Zero >> >>

C19_Results(hotkey) ==
    { k \in 1..Len(sink_scores) : sink_scores[k].miner_id = hotkey }

(* the score the published list gives the hotkey: its last result's, or 0 *)
C19_Score(hotkey) ==
    IF C19_Results(hotkey) = {} THEN Zero
    ELSE sink_scores[CHOOSE k \in C19_Results(hotkey) :
                        \A j \in C19_Results(hotkey) : j <= k].score

(* C19: without burn, and when the scores of the metagraph's hotkeys have a *)
(* positive total, publish hands a vector as long as metagraph.uids and in  *)
(* its order: the position of a scored hotkey gets its score over the total *)
(* of the scores of metagraph hotkeys, a position without a score gets 0,   *)
(* and results of hotkeys outside the metagraph change nothing (scores 1/2, *)
(* 3/10, 1/5 give 1/2, 3/10, 1/5).                                          *)
C19_AlignedToMetagraph ==
    LET total == SumVec([i \in 1..NumUids |-> C19_Score(MetaHotkeys[i])])
    IN (/\ pc = "published"
        /\ sink_burn = None \/ Val(sink_burn) <= 0
        /\ RLt(Zero, total)) =>
           /\ Len(handed) = 1
           /\ Len(handed[1]) = Len(MetaUids)
           /\ \A i \in 1..NumUids :
                  /\ handed[1][i] = RDiv(C19_Score(MetaHotkeys[i]), total)
                  /\ C19_Results(MetaHotkeys[i]) = {} => handed[1][i] = Zero
           /\ (\A i \in 1..NumUids :
                   C19_Score(MetaHotkeys[i]) = << <<1, 2>>, <<3, 10>>, <<1, 5>> >>[i])
                  => handed[1] = << <<1, 2>>, <<3, 10>>, <<1, 5>> >>

C19_Witness ==
    /\ pc = "published"
    /\ sink_burn = None
    /\ C19_Results("hk_x") # {} /\ C19_Score("hk_x") = <<1, 2>>
    /\ C19_Results("hk_owner") = {}
    /\ C19_Score("hk_m1") = One
    /\ handed = << <<One, Zero, Zero>> >>

(* the ceilings the scope's MANUAL config holds, 0 for one that is not set *)
C20_Configured ==
    LET c == Val(dyn_config[ProviderScope])
    IN Percentiles(IF c.manual_p95_sales = None THEN Zero
                   ELSE Val(c.manual_p95_sales),
                   IF c.manual_p95_revenue_usd = None THEN Zero
                   ELSE Val(c.manual_p95_revenue_usd))

C20_ManualCall ==
    /\ pc = "provided"
    /\ dyn_config[ProviderScope] # None
    /\ Val(dyn_config[ProviderScope]).mode = "MANUAL"

(* C20 as stated: every get_effective_p95 call made while the scope's mode  *)
(* is MANUAL returns the configured ceilings and fetches no stats.          *)
C20_ManualAlwaysConfigured ==
    C20_ManualCall =>
        /\ Val(p95_call).value = C20_Configured
        /\ ~Val(p95_call).did_fetch

(* C20: a get_effective_p95 call made while the scope's mode is MANUAL      *)
(* fetches no stats and leaves the stats cache alone; when the epoch holds  *)
(* no thresholds for the scope yet it returns and stores the configured     *)
(* ceilings, whatever the stats, the previous thresholds and the flooring   *)
(* flag; when the epoch already holds thresholds for the scope it returns   *)
(* those, whatever the configured ceilings are.                             *)
C20_ManualConfiguredUnlessCached ==
    C20_ManualCall =>
        /\ ~Val(p95_call).did_fetch
        /\ miner_stats_cache = Val(p95_call).stats_cache
        /\ current_percentiles[ProviderScope] = Val(p95_call).value
        /\ ~Val(p95_call).cached => Val(p95_call).value = C20_Configured

C20_Witness ==
    /\ C20_ManualCall
    /\ Val(dyn_config[ProviderScope]).use_flooring
    /\ ~Val(p95_call).cached
    /\ ProviderScope \in DOMAIN prev_percentiles
    /\ prev_percentiles[ProviderScope] = Percentiles(<<6, 1>>, <<12, 1>>)
    /\ miner_stats_cache # EmptyMap
    /\ Val(p95_call).value = Percentiles(<<4, 1>>, <<8, 1>>)

C21_InUnit(x) == RLeq(Zero, x) /\ RLeq(x, One)

C21_Scored == pc = "scored" /\ Len(sink_scores) = 1

----------------------------------------------------------------------------
(* C22 *)

C22_NoStatsCall == campaign_call # None /\ Val(campaign_call).fetched = <<>>

C22_PendingInMetagraph ==
    \E j \in 1..Len(Val(campaign_call).pending) :
        InMetagraph(Val(campaign_call).pending[j])

(* C22 as stated: a campaign without miner stats gives a vector that is     *)
(* all-zero or the owner fallback.                                          *)
C22_ZeroOrOwnerFallback ==
    C22_NoStatsCall =>
        /\ Val(campaign_call).vec # None
        /\ Val(Val(campaign_call).vec) \in
               {ZeroVec(NumUids), OwnerOnlyVector(owner_hotkey)}

(* C22: a campaign without miner stats raises nothing and gives one result  *)
(* per metagraph hotkey and a vector of length len(metagraph.uids) that is  *)
(* never None; the vector is all-zero or the owner fallback when no pending *)
(* hotkey of the campaign is in the metagraph, and otherwise sums to 1 with *)
(* weight on pending miners (and on the owner under a burn).                *)
C22_DefinedVectorWithoutStats ==
    C22_NoStatsCall =>
        LET c == Val(campaign_call)
        IN /\ ~c.raised
           /\ Len(c.score_results) = Len(MetaHotkeys)
           /\ c.vec # None
           /\ Len(Val(c.vec)) = NumUids
           /\ NonNegative(Val(c.vec))
           /\ IF C22_PendingInMetagraph
              THEN SumVec(Val(c.vec)) = One
              ELSE Val(c.vec) = IF InMetagraph(owner_hotkey)
                                THEN OwnerOnlyVector(owner_hotkey)
                                ELSE ZeroVec(NumUids)

C22_Witness ==
    /\ C22_NoStatsCall
    /\ Val(campaign_call).pending = <<"hk_x">>
    /\ Val(campaign_call).burn = Some(30)
    /\ owner_hotkey = "hk_owner"
    /\ Val(campaign_call).vec = Some(<<Zero, Zero, One>>)

----------------------------------------------------------------------------
(* C23 *)

(* C23: prev_percentiles changes only in update_percentiles, where it       *)
(* becomes the former current_percentiles; current_percentiles changes only *)
(* there, where it is emptied, and in the get_effective_p95 of a campaign's *)
(* scoring, which adds one entry for the campaign's mech scope, absent      *)
(* before, and keeps every other entry.  No other step of the loop (sleep,  *)
(* the cache operations of a pass that finds the scope cached, burn,        *)
(* aggregation, submission, _set_weights) changes either map.               *)
C23_OnlyProviderChangesMaps ==
    [][/\ prev_percentiles' # prev_percentiles =>
             /\ pc = "advance"
             /\ prev_percentiles' = current_percentiles
       /\ current_percentiles' # current_percentiles =>
             \/ /\ pc = "advance"
                /\ current_percentiles' = EmptyMap
             \/ /\ pc = "campaigns"
                /\ idx \in 1..Len(campaigns)
                /\ prev_percentiles' = prev_percentiles
                /\ LET mech_scope == MechScope(campaigns[idx].mech_id)
                   IN /\ mech_scope \notin DOMAIN current_percentiles
                      /\ DOMAIN current_percentiles' =
                             DOMAIN current_percentiles \cup {mech_scope}
                      /\ \A sc \in DOMAIN current_percentiles :
                             current_percentiles'[sc] = current_percentiles[sc]
      ]_vars

C23_Witness ==
    /\ pc = "set_weights"
    /\ DOMAIN current_percentiles = {"mech1", "mech2"}
    /\ prev_percentiles = EmptyMap
    /\ scored = {1, 2}

----------------------------------------------------------------------------
(* C24 *)

C24_Submitted == pc = "set_weights" /\ stats_source # None

C24_ShareZero(i) ==
    /\ ~Declares(campaigns[i])
    /\ \E j \in 1..Len(campaigns) : Declares(campaigns[j])

(* the sum over the declaring campaigns up to i of share * vector at uid k *)
RECURSIVE C24_DeclaredSum(_, _)
C24_DeclaredSum(i, k) ==
    IF i = 0 THEN Zero
    ELSE RAdd(C24_DeclaredSum(i - 1, k),
              IF Declares(campaigns[i])
              THEN RMul(Rat(Val(campaigns[i].emission_split),
                            SumSplits(campaigns)),
                        vectors[i][k])
              ELSE Zero)

(* the epoch of a validator that knows the campaigns cs only, over the same *)
(* stats source: the aggregate after campaign i                             *)
RECURSIVE C24_Epoch(_, _, _, _, _)
C24_Epoch(P, cs, shares, i, aggregated) ==
    IF i > Len(cs) THEN aggregated
    ELSE LET campaign == cs[i]
             mech_scope == MechScope(campaign.mech_id)
             source == Val(stats_source).source
             R == ComputeScoresForCampaign(
                      P, campaign, dyn_config[mech_scope],
                      FetchWindow(source, campaign.scope),
                      FetchWindow(source, Get(P.mapping, mech_scope, mech_scope)),
                      <<>>, FALSE)
             vec == CampaignWeightsVec(R.score_results, None, owner_hotkey)
         IN C24_Epoch([P EXCEPT !.current = R.current, !.cache = R.cache],
                      cs, shares, i + 1, Aggregate(aggregated, shares[i], vec))

C24_CallOf(cs) ==
    FinalCall(cs,
              C24_Epoch([prev |-> EmptyMap, current |-> EmptyMap,
                         cache |-> EmptyMap, mapping |-> BuildMapping(cs)],
                        cs, CampaignWeights(cs), 1, ZeroVec(NumUids)),
              None, owner_hotkey)

C24_DeclaringAlone == C24_CallOf(SelectSeq(campaigns, Declares))

(* a campaign with share 0 is the primary campaign of the mech scope of a   *)
(* declaring campaign                                                       *)
C24_ShareZeroIsPrimary ==
    \E i, j \in 1..Len(campaigns) :
        /\ C24_ShareZero(i)
        /\ Declares(campaigns[j])
        /\ Get(mech_scope_to_campaign_scope,
               MechScope(campaigns[j].mech_id), "") = campaigns[i].scope

----------------------------------------------------------------------------
(* C25 *)

C25_InRange(p) == RLeq(Zero, p) /\ RLeq(p, Rat(100, 1))

C25_FixedOf(scope_config) ==
    IF scope_config # None THEN Val(scope_config).burn_percentage ELSE None

----------------------------------------------------------------------------
(* C26 *)

C26_Returned == campaign_call # None /\ ~Val(campaign_call).raised

C26_Pending ==
    {Val(campaign_call).pending[j] : j \in 1..Len(Val(campaign_call).pending)}

C26_WithStats ==
    {Val(campaign_call).fetched[i][1] : i \in 1..Len(Val(campaign_call).fetched)}

C26_Entries(hotkey) ==
    {i \in 1..Len(Val(campaign_call).score_results) :
        Val(campaign_call).score_results[i].miner_id = hotkey}

(* C26: in what compute_scores_for_campaign returns, a pending hotkey of    *)
(* the metagraph without a miner-stats entry has exactly one entry, with    *)
(* base and score PENDING_MINER_MIN_SCORE and refund_multiplier 1, however  *)
(* often it is listed; a miner with a stats entry has its computed score,   *)
(* pending or not; a pending hotkey outside the metagraph without stats has *)
(* no entry.                                                                *)
C26_PendingMinimum ==
    C26_Returned =>
        LET c == Val(campaign_call)
            mech_scope == MechScope(c.campaign.mech_id)
            cfg == dyn_config[mech_scope]
            scope_config == IF cfg = None THEN GetDefaultConfig ELSE Val(cfg)
        IN /\ \A hotkey \in C26_Pending \ C26_WithStats :
                 IF InMetagraph(hotkey)
                 THEN /\ Cardinality(C26_Entries(hotkey)) = 1
                      /\ \A i \in C26_Entries(hotkey) :
                            /\ c.score_results[i].score = PENDING_MINER_MIN_SCORE
                            /\ c.score_results[i].base = PENDING_MINER_MIN_SCORE
                            /\ c.score_results[i].refund_multiplier = One
                 ELSE C26_Entries(hotkey) = {}
           /\ \A i \in 1..Len(c.fetched) :
                 /\ C26_Entries(c.fetched[i][1]) = {i}
                 /\ c.score_results[i] =
                        ScoreOne(c.fetched[i][1], c.fetched[i][2],
                                 current_percentiles[mech_scope], scope_config)

C26_Witness ==
    /\ C26_Returned
    /\ Val(campaign_call).fetched = StatsLow
    /\ Val(campaign_call).pending = <<"hk_owner", "hk_m1">>
    /\ Len(Val(campaign_call).score_results) = 4
    /\ Val(campaign_call).score_results[3] =
           ScoreResult("hk_owner", PENDING_MINER_MIN_SCORE)
    /\ Val(campaign_call).score_results[1].score # PENDING_MINER_MIN_SCORE

----------------------------------------------------------------------------
(* C27 *)

(* a scoring that asks the provider for the thresholds of its mech scope *)
C27_Call == campaign_call # None /\ Val(campaign_call).fetched # <<>>

(* the first campaign with the mech scope in the list the mapping was built *)
(* from                                                                     *)
C27_Primary(mech_scope) ==
    LET cs == CHOOSE l \in InitCampaignLists : TRUE
        first == CHOOSE i \in 1..Len(cs) :
                     /\ MechScope(cs[i].mech_id) = mech_scope
                     /\ \A j \in 1..(i - 1) :
                            MechScope(cs[j].mech_id) # mech_scope
    IN cs[first].scope

C27_StatsOf(miner_stats_list) ==
    [i \in 1..Len(miner_stats_list) |-> miner_stats_list[i][2]]

(* C27: when a campaign's scoring makes the provider compute the AUTO       *)
(* thresholds of its mech scope, they are computed from the stats of the    *)
(* mech scope's primary campaign: the campaign's own stats when it is the   *)
(* primary one, else what the provider fetches for the primary campaign;    *)
(* when the mech scope has thresholds from an earlier campaign of the epoch *)
(* they are kept; in both cases every miner of the campaign is normalized   *)
(* against the pair the epoch holds for the mech scope.                     *)
C27_PrimaryStatsOneCeiling ==
    C27_Call =>
        LET c == Val(campaign_call)
            mech_scope == MechScope(c.campaign.mech_id)
            cfg == dyn_config[mech_scope]
            scope_config == IF cfg = None THEN GetDefaultConfig ELSE Val(cfg)
            used == IF c.campaign.scope = C27_Primary(mech_scope)
                    THEN c.fetched ELSE c.p95_fetched
        IN /\ mech_scope \in DOMAIN current_percentiles
           /\ mech_scope \in DOMAIN c.before =>
                  current_percentiles[mech_scope] = c.before[mech_scope]
           /\ (mech_scope \notin DOMAIN c.before /\ scope_config.mode = "AUTO") =>
                  current_percentiles[mech_scope] =
                      ComputeAutoP95(C27_StatsOf(used),
                                     IF mech_scope \in DOMAIN prev_percentiles
                                     THEN Some(prev_percentiles[mech_scope])
                                     ELSE None,
                                     scope_config.ema_alpha,
                                     scope_config.use_flooring)
           /\ ~c.raised =>
                  \A i \in 1..Len(c.fetched) :
                      c.score_results[i] =
                          ScoreOne(c.fetched[i][1], c.fetched[i][2],
                                   current_percentiles[mech_scope], scope_config)

C27_Witness ==
    /\ C27_Call
    /\ Val(campaign_call).campaign.scope = "B"
    /\ Val(campaign_call).before = EmptyMap
    /\ dyn_config["mech1"] = None
    /\ prev_percentiles = EmptyMap
    /\ Val(campaign_call).fetched = StatsLow
    /\ Val(campaign_call).p95_fetched = StatsHigh
    /\ current_percentiles["mech1"] = Percentiles(<<4, 1>>, <<8, 1>>)
    /\ ~Val(campaign_call).raised

----------------------------------------------------------------------------
(* C28 *)

(* C28: between two epochs, and when the campaign loop of an epoch begins,  *)
(* the miner-stats cache is empty, so that every AUTO computation of the    *)
(* epoch works on stats fetched or cached in that epoch.                    *)
C28_NoCacheEntryAcrossEpochs ==
    (pc = "loop" \/ (pc = "campaigns" /\ idx = 1)) =>
        miner_stats_cache = EmptyMap

----------------------------------------------------------------------------
(* C29 *)

(* C29: a _set_weights call makes at most max_retries attempts; every       *)
(* attempt before its last one failed, so none follows a successful one;    *)
(* when it returns after an attempt it returns that last attempt's success  *)
(* and message, and it gives up without success only when max_retries       *)
(* attempts are made; with an unregistered hotkey or max_retries = 0 it     *)
(* makes no attempt and returns failure.                                    *)
C29_BoundedRetries ==
    set_weights_call # None =>
        LET c == Val(set_weights_call)
        IN /\ c.attempts <= c.max_retries
           /\ \A i \in 1..(c.attempts - 1) : c.outcomes[i] = "fail"
           /\ (~c.raised /\ c.attempts > 0) =>
                  /\ c.message = <<"attempt", c.attempts>>
                  /\ c.success = (c.outcomes[c.attempts] = "ok")
           /\ (~c.raised /\ ~c.success /\ c.registered) =>
                  c.attempts = c.max_retries
           /\ (~c.registered \/ c.max_retries = 0) =>
                  /\ c.attempts = 0
                  /\ ~c.success
                  /\ ~c.raised
                  /\ c.message[1] \in {"not_registered", "no_attempt"}

C29_Witness ==
    /\ set_weights_call # None
    /\ Val(set_weights_call).registered
    /\ Val(set_weights_call).max_retries = 4
    /\ Val(set_weights_call).outcomes[1] = "fail"
    /\ Val(set_weights_call).outcomes[2] = "ok"
    /\ Val(set_weights_call).attempts = 2
    /\ Val(set_weights_call).success
    /\ Val(set_weights_call).message = <<"attempt", 2>>

----------------------------------------------------------------------------
(* C30 *)

(* a step that ends an iteration which processed weights *)
C30_ProcessingEnds == pc # "loop" /\ pc' = "loop"

----------------------------------------------------------------------------
(* C31 *)

(* C31: a RuntimeError that leaves an iteration does not end the loop: the  *)
(* validator is back at the head of the loop and goes through further       *)
(* iterations; the loop has stopped exactly when a KeyboardInterrupt was    *)
(* caught, and run() is left otherwise only by an exception that is neither *)
(* of the two.                                                              *)
C31_RuntimeErrorKeepsLooping ==
    /\ caught = Some("RuntimeError") => pc \notin {"stopped", "crashed"}
    /\ (caught = Some("RuntimeError") /\ result # None /\ Val(result).raised)
           => pc = "loop"
    /\ pc = "stopped" <=> caught = Some("KeyboardInterrupt")
    /\ pc = "crashed" <=> caught = Some("Exception")

(* the iteration after the one a RuntimeError ended is processing weights *)
C31_Witness ==
    /\ caught = Some("RuntimeError")
    /\ pc = "campaigns"
    /\ epoch = 2

----------------------------------------------------------------------------
(* C32 *)

C32_Source == Val(config_source)

C32_Call == Val(C32_Source.call)

(* the latest call came after a successful request for its cache key *)
C32_AfterFetch ==
    /\ config_source # None
    /\ C32_Source.call # None
    /\ C32_Call.key \in DOMAIN C32_Call.known

C32_FetchedData == C32_Call.known[C32_Call.key][1]

C32_FetchedAt == C32_Call.known[C32_Call.key][2]

(* C32: a call made less than cache_ttl after the latest successful request *)
(* for its key returns that request's data without a new request; a call    *)
(* made cache_ttl or more after it never answers from the cache: it sends a *)
(* new request (or has no base URL), a failure returns None and leaves no   *)
(* entry; the cache never holds anything but the data and time of the       *)
(* latest successful request, so a failed request is never stored.          *)
C32_CacheWithinTtlOnly ==
    config_source # None =>
        /\ \A k \in DOMAIN C32_Source.cache :
              /\ k \in DOMAIN C32_Source.fetched
              /\ C32_Source.cache[k] = C32_Source.fetched[k]
        /\ (C32_AfterFetch
              /\ C32_Call.time < C32_FetchedAt + C32_Source.cache_ttl) =>
              /\ C32_Call.returned = Some(C32_FetchedData)
              /\ ~C32_Call.requested
        /\ (C32_AfterFetch
              /\ C32_Call.time >= C32_FetchedAt + C32_Source.cache_ttl) =>
              /\ C32_Call.requested = C32_Source.has_url
              /\ C32_Call.returned =
                     IF C32_Call.requested /\ C32_Call.response.kind = "ok"
                     THEN Some(C32_Call.response.data)
                     ELSE None
              /\ C32_Call.returned = None =>
                     C32_Call.key \notin DOMAIN C32_Source.cache
        /\ (C32_Source.call # None /\ C32_Call.response.kind # "ok"
              /\ C32_Call.requested) =>
              /\ C32_Call.returned = None
              /\ C32_Call.key \notin DOMAIN C32_Source.cache
              /\ C32_Source.fetched = C32_Call.known

(* cfg1 was fetched, its entry has expired, and the refetch failed *)
C32_Witness ==
    /\ C32_AfterFetch
    /\ C32_FetchedData = "cfg1"
    /\ C32_Call.time >= C32_FetchedAt + C32_Source.cache_ttl
    /\ C32_Call.requested
    /\ C32_Call.response.kind = "request_error"
    /\ C32_Call.returned = None

----------------------------------------------------------------------------
(* C33 *)

C33_Fetch == Val(campaign_fetch)

(* the response is an object with a "campaigns" array *)
C33_Delivered ==
    /\ C33_Fetch.has_url
    /\ C33_Fetch.response.kind = "ok"

(* the entries the claim selects: objects with a campaign_id and status 1 *)
C33_Selected ==
    SelectSeq(C33_Fetch.response.entries,
              LAMBDA e : /\ e.shape = "object"
                         /\ e.campaign_id # None
                         /\ e.status \in {<<"missing">>, <<"int", 1>>})

C33_Misshaped ==
    /\ C33_Fetch.has_url
    /\ \/ C33_Fetch.response.kind = "top_level_array"
       \/ \E i \in 1..Len(C33_Fetch.response.entries) :
              C33_Fetch.response.entries[i].shape # "object"

----------------------------------------------------------------------------
(* C34 *)

C34_Burns == Val(stats_source).burns

(* campaign i has a burn percentage in (0, 100] and a miner other than the  *)
(* owner with sales in its stats                                            *)
C34_BurnedWithMinerScore(i) ==
    /\ C34_Burns[campaigns[i].scope] # None
    /\ Val(C34_Burns[campaigns[i].scope]) > 0
    /\ Val(C34_Burns[campaigns[i].scope]) <= 100
    /\ \E k \in 1..Len(FetchWindow(Val(stats_source).source,
                                  campaigns[i].scope)) :
          LET s == FetchWindow(Val(stats_source).source,
                               campaigns[i].scope)[k]
          IN /\ InMetagraph(s[1])
             /\ s[1] # owner_hotkey
             /\ s[2].sales > 0

(* the sum over the first n campaigns of emission share * b_c / 100 *)
RECURSIVE C34_BurnSum(_)
C34_BurnSum(n) ==
    IF n = 0 THEN Zero
    ELSE RAdd(C34_BurnSum(n - 1),
              RMul(campaign_weights[n],
                   Rat(Val(C34_Burns[campaigns[n].scope]), 100)))

(* the epoch has scored every campaign and has handed its vector over *)
C34_AllBurned ==
    /\ stats_source # None
    /\ pc = "set_weights"
    /\ GetOwnerIndex(owner_hotkey) # None
    /\ scored = 1..Len(campaigns)
    /\ \A i \in 1..Len(campaigns) : C34_BurnedWithMinerScore(i)

----------------------------------------------------------------------------
(* C35 *)

C35_Call == Val(version_call)

C35_Segments == C35_Call.version.segments

(* every segment is a run of digits *)
C35_Numeric ==
    /\ C35_Call.version.kind = "str"
    /\ \A i \in 1..Len(C35_Segments) :
          /\ C35_Segments[i] # <<>>
          /\ \A k \in 1..Len(C35_Segments[i]) :
                C35_Segments[i][k] \in
                    {"0", "1", "2", "3", "4", "5", "6", "7", "8", "9"}

(* the value of a run of digits *)
RECURSIVE C35_Value(_)
C35_Value(s) ==
    IF s = <<>> THEN 0
    ELSE LET c == s[Len(s)]
             d == CASE c = "0" -> 0 [] c = "1" -> 1 [] c = "2" -> 2
                    [] c = "3" -> 3 [] c = "4" -> 4 [] c = "5" -> 5
                    [] c = "6" -> 6 [] c = "7" -> 7 [] c = "8" -> 8
                    [] c = "9" -> 9
         IN C35_Value(SubSeq(s, 1, Len(s) - 1)) * 10 + d

(* the segments from the first one that is not zero *)
C35_FirstNonZero ==
    IF \E i \in 1..Len(C35_Segments) : C35_Value(C35_Segments[i]) # 0
    THEN CHOOSE i \in 1..Len(C35_Segments) :
             /\ C35_Value(C35_Segments[i]) # 0
             /\ \A j \in 1..(i - 1) : C35_Value(C35_Segments[j]) = 0
    ELSE Len(C35_Segments) + 1

(* the number of decimal digits of n *)
RECURSIVE C35_Width(_)
C35_Width(n) == IF n < 10 THEN 1 ELSE 1 + C35_Width(n \div 10)

RECURSIVE C35_Pow10(_)
C35_Pow10(k) == IF k = 0 THEN 1 ELSE 10 * C35_Pow10(k - 1)

(* the number whose decimal digits are those of segments i..j in a row *)
RECURSIVE C35_Concatenated(_, _)
C35_Concatenated(i, j) ==
    IF j < i THEN 0
    ELSE C35_Concatenated(i, j - 1)
             * C35_Pow10(C35_Width(C35_Value(C35_Segments[j])))
         + C35_Value(C35_Segments[j])

====
